---- MODULE Spec2Model ----
(***************************************************************************)
(* Wassapi backend (src/index.js): the outbound send endpoints with their  *)
(* admission gates, wallet debit and refund, and the WhatsApp session      *)
(* registry.  Every awaited row-store or worker call of a handler is one   *)
(* step of that handler, so handlers of concurrent requests interleave at  *)
(* the places where the event loop can switch between them.                *)
(***************************************************************************)
EXTENDS Integers, Sequences, FiniteSets, TLC

\* ---------------------------------------------------------------- constants

MESSAGE_COST_IQD == 10
DEFAULT_WALLET_BALANCE == 1000
messages_limit == 1200
numbers_limit == 1
rate_limit_per_minute == 10
rate_limit_per_hour == 100
rate_limit_per_day == 1000
\* callWebhook's maxRetries when max_retries is falsy
DefaultMaxRetries == 3
MinDigits == 9
MaxDigits == 15

\* ------------------------------------------------------------------- bounds

MaxReq == 2
MaxRecipients == 2
MaxWorkers == 3
\* deliveries of the ready event per worker
MaxReady == 2
\* webhooks rows, and the largest max_retries a row stores
MaxHooks == 2
MaxStoredRetries == 3
\* depth of the auth directory tree (a file directly in it has depth 1)
MaxDepth == 3
\* concurrent POST /api/subscriptions requests of the user
MaxPurchases == 2
\* qr events a worker emits before it is authenticated
MaxQr == 2
\* handlers that emit events: inbound messages and send-otp requests
MaxProducers == 2

Req == 1..MaxReq
None == "none"
User == "u1"
Sessions == {"s1", "s2"}
WorkerNames == <<"w1", "w2", "w3", "w4", "w5">>
Workers == {WorkerNames[k] : k \in 1..MaxWorkers}

SingleEndpoints == {"send-otp", "v1-otp", "v1-send", "test-message"}
BulkEndpoints == {"send-announcement", "v1-send-bulk"}
Endpoints == SingleEndpoints \cup BulkEndpoints

\* ---------------------------------------------------------------- recipients

Digits(n) == [k \in 1..n |-> "7"]
GoodRecipient == <<"+">> \o Digits(MinDigits)
BadRecipient == Digits(MinDigits - 1) \o <<"-">>
Recipients == {GoodRecipient, BadRecipient}

IsDigit(c) == c = "7"
IsDigitOrPlus(c) == IsDigit(c) \/ c = "+"

\* recipient.replace(/[^\d+]/g, '').replace(/^\+/, '')
formattedNumber(recipient) ==
  LET kept == SelectSeq(recipient, IsDigitOrPlus)
  IN IF Len(kept) > 0 /\ Head(kept) = "+" THEN Tail(kept) ELSE kept

\* /^\d{9,15}$/.test(formattedNumber)
ValidNumber(n) ==
  /\ Len(n) >= MinDigits
  /\ Len(n) <= MaxDigits
  /\ \A k \in 1..Len(n) : IsDigit(n[k])

RecipientLists(ep) ==
  IF ep \in SingleEndpoints
  THEN {<<x>> : x \in Recipients}
  ELSE UNION {[1..n -> Recipients] : n \in 1..MaxRecipients}

\* -------------------------------------------------------------------- state

VARIABLES
  wallet_balance,       \* user_profiles.wallet_balance of the user
  wallet_transactions,  \* rows of wallet_transactions
  automation_logs,      \* rows of automation_logs written by the requests
  logs_last_minute,     \* automation_logs rows of the last minute written earlier
  messages_used,        \* user_subscriptions.messages_used of the active subscription
  numbers_used,         \* user_subscriptions.numbers_used of the active subscription
  whatsapp_sessions,    \* session id -> status of its row ("none": no row)
  stale,                \* the sessions whose row was updated more than 5 minutes ago
  clients,              \* the clients Map: session id -> worker
  workers,              \* worker -> the Client object's state
  req,                  \* request -> the handler's locals and position
  start_balance,        \* the balance before the first request (never written)
  webhooks,             \* rows of webhooks
  event,                \* the event handed to triggerWebhooks, if any
  calls,                \* the callWebhook invocation of each webhook
  webhook_logs,         \* rows of webhook_logs
  startup,              \* startServer: its position and each session's download
  api_keys,             \* rows of api_keys with is_active = true
  ready_handlers,       \* the runs of a session's ready handler, each at its await
  auth_files,           \* the files under .wwebjs_auth/<sessionId>
  object_store,         \* the objects of the storage bucket
  restored_files,       \* the files restoreSession wrote into an empty directory
  storage_pc,           \* the storage operation under way and the background delete
  user_subscriptions,   \* rows of user_subscriptions
  purchases,            \* the POST /api/subscriptions requests: locals and position
  producers,            \* the handlers that emit events: locals and position
  deliveries            \* the callWebhook invocations started by triggerWebhooks

wallet == <<wallet_balance, wallet_transactions, start_balance>>
usage == <<messages_used, numbers_used>>
logs == <<automation_logs, logs_last_minute>>
session_rows == <<whatsapp_sessions, stale>>
registry == <<session_rows, clients, workers>>
hooks == <<webhooks, event, calls, webhook_logs>>
keys == <<api_keys, ready_handlers>>
storage == <<auth_files, object_store, restored_files, storage_pc>>
subs == <<user_subscriptions, purchases>>
fanout == <<producers, deliveries>>
stores == <<keys, storage, subs, fanout>>
vars == <<wallet_balance, wallet_transactions, automation_logs, logs_last_minute,
          messages_used, numbers_used, whatsapp_sessions, stale, clients, workers, req,
          start_balance, webhooks, event, calls, webhook_logs, startup,
          api_keys, ready_handlers, auth_files, object_store, restored_files,
          storage_pc, user_subscriptions, purchases, producers, deliveries>>

IdleReq ==
  [ep |-> None, sid |-> None, client |-> None, rcps |-> <<>>, pc |-> "idle",
   bal |-> 0, cur |-> 0, debit |-> 0, counted |-> 0,
   i |-> 0, sent |-> 0, failed |-> 0, refund |-> 0, fail |-> None, sub |-> FALSE,
   code |-> 0, stop |-> 0, user |-> User, was |-> None]

\* a Client object: the session it was created for, the function that created it
\* ("init": initializeClient, "restore": restoreClient), the request awaiting it,
\* the progress of initialize(), client.info, the page, restoreClient's
\* isResolved, the position of its ready handler and the number of connected
\* rows when that handler finished
NoWorker ==
  [session |-> None, kind |-> None, owner |-> 0, stage |-> "none", info |-> FALSE,
   closed |-> FALSE, resolved |-> FALSE, hpc |-> "none", rows |-> 0,
   readies |-> 0, incs |-> 0, qrs |-> 0, auths |-> 0]

ReadyWorker(s) ==
  [NoWorker EXCEPT !.session = s, !.kind = "init", !.stage = "up", !.info = TRUE,
                   !.hpc = "done", !.rows = 1, !.readies = 1, !.incs = 1]

\* no event to deliver and no row in webhooks
NoEvent == [user |-> None, session |-> None, type |-> None]

\* startServer has run: the server listens, no download is in flight
Listening == [pc |-> "listening", download |-> [s \in Sessions |-> "none"]]

\* no storage operation runs and the bucket is not looked at
NoStorageOp == [op |-> "none", del |-> "none", paths |-> {}, user |-> None]

NoStorage ==
  /\ auth_files = {}
  /\ object_store = {}
  /\ restored_files = {}
  /\ storage_pc = NoStorageOp

\* no ready handler runs apart from the workers' own, and the api_keys rows are
\* not looked at
\* nobody buys a subscription
NoSubscriptions ==
  /\ user_subscriptions = {}
  /\ purchases = <<>>

\* no handler emits an event
NoFanout ==
  /\ producers = <<>>
  /\ deliveries = {}

NoKeys ==
  /\ api_keys = {}
  /\ ready_handlers = <<>>
  /\ NoStorage
  /\ NoSubscriptions
  /\ NoFanout

NoWebhooks ==
  /\ webhooks = <<>>
  /\ event = NoEvent
  /\ calls = <<>>
  /\ webhook_logs = {}

\* balance, messages_used and the log rows of the last minute at the start:
\* a wallet that covers three, one and no message, a subscription one message
\* short of its limit, and a user one message short of the minute's rate limit
InitAccounts ==
  {<<30, 0, 0>>, <<10, 0, 0>>, <<5, 0, 0>>,
   <<30, messages_limit - 1, 0>>, <<30, 0, rate_limit_per_minute - 1>>}

\* One user with a connected session s1 whose worker w1 is ready.
Init ==
  /\ \E a \in InitAccounts :
       /\ wallet_balance = a[1]
       /\ messages_used = a[2]
       /\ logs_last_minute = a[3]
  /\ start_balance = wallet_balance
  /\ wallet_transactions = {}
  /\ automation_logs = {}
  /\ numbers_used = 1
  /\ whatsapp_sessions = [s \in Sessions |-> IF s = "s1" THEN "connected" ELSE None]
  /\ stale = {}
  /\ clients = [s \in Sessions |-> IF s = "s1" THEN "w1" ELSE None]
  /\ workers = [w \in Workers |->
       IF w = "w1" THEN ReadyWorker("s1") ELSE NoWorker]
  /\ req = [r \in Req |-> IdleReq]
  /\ NoWebhooks
  /\ startup = Listening
  /\ NoKeys

\* ------------------------------------------------------------------ helpers

Needed(q) == IF q.ep \in BulkEndpoints THEN Len(q.rcps) ELSE 1
Cost(q) == MESSAGE_COST_IQD * Needed(q)

Goto(r, q, pc) == req' = [req EXCEPT ![r] = [q EXCEPT !.pc = pc]]
Respond(r, q, code) == req' = [req EXCEPT ![r] = [q EXCEPT !.pc = "done", !.code = code]]

\* src/index.js isClientReady
isClientReady(c) ==
  /\ c # None
  /\ workers[c].info
  /\ ~workers[c].closed

\* the page of a worker closes (browser crash, logout on the phone)
PageClose(w) ==
  /\ workers[w].stage = "up"
  /\ ~workers[w].closed
  /\ workers' = [workers EXCEPT ![w].closed = TRUE]
  /\ UNCHANGED <<stores, startup, hooks, wallet, logs, usage, session_rows, clients, req>>

\* Five minutes pass without an update of any session row.  The steps of a
\* handler are milliseconds apart, so this happens between handlers.
FiveMinutesPass ==
  /\ \A r \in Req : req[r].pc \in {"idle", "done", "await"}
  /\ \A w \in Workers : workers[w].hpc \in {"none", "skipped", "done"}
  /\ stale # {s \in Sessions : whatsapp_sessions[s] # None}
  /\ stale' = {s \in Sessions : whatsapp_sessions[s] # None}
  /\ UNCHANGED <<stores, startup, hooks, wallet, logs, usage, whatsapp_sessions, clients, workers, req>>

\* a request arrives
Start(r) ==
  /\ req[r].pc = "idle"
  /\ \A o \in Req : o < r => req[o].pc # "idle"
  /\ \E ep \in Endpoints : \E rcps \in RecipientLists(ep) :
       req' = [req EXCEPT ![r] =
                 [IdleReq EXCEPT !.ep = ep, !.sid = "s1", !.rcps = rcps, !.pc = "gate"]]
  /\ UNCHANGED <<stores, startup, hooks, wallet, logs, usage, registry>>

\* ------------------------------------------------------------ session rows

\* update whatsapp_sessions set status = ... for the rows of S that exist; the
\* trigger update_whatsapp_sessions_updated_at then sets updated_at = NOW()
UpdateRows(S, status) ==
  /\ whatsapp_sessions' =
       [s \in Sessions |->
          IF s \in S /\ whatsapp_sessions[s] # None THEN status
          ELSE whatsapp_sessions[s]]
  /\ stale' = stale \ S

\* ------------------------------------------------------------ session gate

\* the stage that follows the readiness gate
AfterGate(ep) == IF ep \in {"v1-otp", "test-message"} THEN "read" ELSE "sub"

\* clients.delete(sessionId) and the row update to disconnected
Evict(s) ==
  /\ clients' = [clients EXCEPT ![s] = None]
  /\ UpdateRows({s}, "disconnected")

\* clients.get(sessionId) found nothing
NoClient(r, q) ==
  LET status == whatsapp_sessions[q.sid] IN
  CASE q.ep = "send-otp" ->
         /\ IF status = None THEN Respond(r, q, 404)
            ELSE IF status = "connected" THEN Goto(r, q, "restore")
            ELSE Respond(r, q, 400)
         /\ UNCHANGED <<session_rows, clients>>
    [] q.ep = "v1-otp" ->
         IF status = None
         THEN Respond(r, q, 404) /\ UNCHANGED <<session_rows, clients>>
         ELSE IF status \in {"connected", "connecting"}
         THEN IF q.sid \in stale
              THEN /\ UpdateRows({q.sid}, "disconnected")
                   /\ Respond(r, q, 400)
                   /\ UNCHANGED clients
              ELSE /\ Goto(r, q, "restore")
                   /\ UNCHANGED <<session_rows, clients>>
         ELSE Respond(r, q, 400) /\ UNCHANGED <<session_rows, clients>>
    [] q.ep = "test-message" ->
         /\ Respond(r, q, IF status = "connected" THEN 503 ELSE 400)
         /\ UNCHANGED <<session_rows, clients>>
    [] OTHER ->
         /\ Respond(r, q, 404)
         /\ UNCHANGED <<session_rows, clients>>

\* the client is registered and isClientReady(client) is false
NotReady(r, q, c) ==
  CASE q.ep = "send-otp" ->
         IF ~workers[c].info /\ q.sid \notin stale
         THEN Respond(r, q, 503) /\ UNCHANGED <<session_rows, clients>>
         ELSE Evict(q.sid) /\ Respond(r, q, 400)
    [] q.ep = "send-announcement" ->
         IF ~workers[c].info
         THEN Respond(r, q, 503) /\ UNCHANGED <<session_rows, clients>>
         ELSE Evict(q.sid) /\ Respond(r, q, 400)
    [] q.ep = "v1-otp" ->
         IF q.sid \in stale
         THEN Evict(q.sid) /\ Respond(r, q, 400)
         ELSE /\ Goto(r, [q EXCEPT !.client = c], "poll")
              /\ UNCHANGED <<session_rows, clients>>
    [] OTHER ->
         /\ Respond(r, q, IF ~workers[c].info THEN 503 ELSE 400)
         /\ UNCHANGED <<session_rows, clients>>

\* gate 1 of every send endpoint: the session's client and its readiness
\* ("recheck": the readiness check of the client that restoreClient returned)
GateSession(r) ==
  LET q == req[r]
      c == IF q.pc = "gate" THEN clients[q.sid] ELSE q.client
  IN /\ q.pc \in {"gate", "recheck"}
     /\ IF c = None THEN NoClient(r, q)
        ELSE IF ~isClientReady(c) THEN NotReady(r, q, c)
        ELSE /\ Goto(r, [q EXCEPT !.client = c], AfterGate(q.ep))
             /\ UNCHANGED <<session_rows, clients>>
     /\ UNCHANGED <<stores, startup, hooks, wallet, logs, usage, workers>>

\* POST /api/v1/otp/send: the 15 s readiness poll
Poll(r) ==
  LET q == req[r] IN
  /\ q.pc = "poll"
  /\ IF isClientReady(q.client) THEN Goto(r, q, "read") ELSE Respond(r, q, 503)
  /\ UNCHANGED <<stores, startup, hooks, wallet, logs, usage, registry>>

\* ------------------------------------------------- subscription and rate gates

\* src/unnamed/part_002 check_subscription_limits (basic tier: 1200 messages, 1 number)
checkSubscriptionLimits(messagesNeeded, numbersNeeded) ==
  /\ messages_used + messagesNeeded <= messages_limit
  /\ numbers_used + numbersNeeded <= numbers_limit

\* ---------------------------------------------------------- session workers

ConnectedRows == {s \in Sessions : whatsapp_sessions[s] = "connected"}

FreeSlots == {k \in 1..MaxWorkers : workers[WorkerNames[k]].stage = "none"}

\* new Client({authStrategy: new LocalAuth({clientId: sessionId})})
NewWorker == WorkerNames[CHOOSE k \in FreeSlots : \A j \in FreeSlots : k <= j]
NewClient(s, kind, owner) ==
  [NoWorker EXCEPT !.session = s, !.kind = kind, !.owner = owner, !.stage = "launching"]

\* the promise a request awaits settles: the request goes on at pc
Settle(w, pc, code) ==
  LET r == workers[w].owner IN
  IF r # 0 /\ req[r].pc = "await" /\ req[r].client = w
  THEN req' = [req EXCEPT ![r].pc = pc, ![r].code = code]
  ELSE UNCHANGED req

\* a send handler found the row connected and no client: restoreClient on demand
RestoreOnDemand(r) ==
  LET q == req[r] IN
  /\ q.pc = "restore"
  /\ FreeSlots # {}
  /\ workers' = [workers EXCEPT ![NewWorker] = NewClient(q.sid, "restore", r)]
  /\ Goto(r, [q EXCEPT !.client = NewWorker], "await")
  /\ UNCHANGED <<stores, startup, hooks, wallet, logs, usage, session_rows, clients>>

\* client.initialize() resolves: clients.set(sessionId, client)
InitializeDone(w) ==
  /\ workers[w].stage = "launching"
  /\ workers' = [workers EXCEPT ![w].stage = "up"]
  /\ clients' = [clients EXCEPT ![workers[w].session] = w]
  /\ IF workers[w].kind = "init" THEN Settle(w, "done", 200) ELSE UNCHANGED req
  /\ UNCHANGED <<stores, startup, hooks, wallet, logs, usage, session_rows>>

\* A query builder runs its query when it is awaited (then).  The code also
\* calls .catch(...) on builders: where the builder has a catch method the query
\* runs, where it has none the call throws a TypeError and the rest of the
\* callback is skipped.  Both builds exist.
BuilderHasCatch == BOOLEAN

\* client.initialize() rejects
InitializeFail(w) ==
  LET s == workers[w].session IN
  /\ workers[w].stage = "launching"
  /\ IF workers[w].kind = "init"
     THEN /\ workers' = [workers EXCEPT ![w].stage = "failed"]
          /\ Settle(w, "done", 500)
          /\ UNCHANGED <<session_rows, clients>>
     ELSE /\ workers' = [workers EXCEPT ![w].stage = "failed", ![w].resolved = TRUE]
          /\ clients' = [clients EXCEPT ![s] = None]
          /\ \E has \in BuilderHasCatch :
               IF has
               THEN /\ UpdateRows({s}, "failed")
                    /\ Settle(w, "done", 503)
               ELSE UNCHANGED <<session_rows, req>>
  /\ UNCHANGED <<stores, startup, hooks, wallet, logs, usage>>

\* the worker emits ready; restoreClient's handler returns at once when the
\* promise is settled, else it sets isResolved and stores the client
ReadyEvent(w) ==
  LET k == workers[w] IN
  /\ k.stage = "up"
  /\ ~k.info
  /\ ~k.closed
  /\ k.hpc = "none"
  /\ IF k.kind = "restore" /\ k.resolved
     THEN /\ workers' = [workers EXCEPT ![w].info = TRUE, ![w].hpc = "skipped",
                                        ![w].readies = 1]
          /\ UNCHANGED clients
     ELSE /\ workers' = [workers EXCEPT ![w].info = TRUE, ![w].hpc = "r_row",
                                        ![w].resolved = (k.kind = "restore"),
                                        ![w].readies = 1]
          /\ clients' = IF k.kind = "restore" THEN [clients EXCEPT ![k.session] = w]
                        ELSE clients
  /\ UNCHANGED <<stores, startup, hooks, wallet, logs, usage, session_rows, req>>

\* the worker emits ready once more, its earlier handler having finished:
\* restoreClient's handler returns at once (isResolved), initializeClient's runs
\* again from the top
ReadyAgain(w) ==
  LET k == workers[w] IN
  /\ k.stage = "up"
  /\ k.info
  /\ ~k.closed
  /\ k.hpc \in {"skipped", "done"}
  /\ k.readies < MaxReady
  /\ workers' = [workers EXCEPT ![w].readies = k.readies + 1,
                                ![w].hpc = IF k.kind = "restore" THEN "skipped"
                                           ELSE "r_row"]
  /\ UNCHANGED <<stores, startup, hooks, wallet, logs, usage, session_rows, clients, req>>

\* ready handler: update the row to connected
ReadyRow(w) ==
  LET k == workers[w] IN
  /\ k.hpc = "r_row"
  /\ UpdateRows({k.session}, "connected")
  /\ workers' = [workers EXCEPT ![w].hpc = IF k.kind = "init" THEN "r_usage" ELSE "r_count"]
  /\ UNCHANGED <<stores, startup, hooks, wallet, logs, usage, clients, req>>

\* the end of restoreClient's ready handler: resolve(client)
ReadyResolve(w, n) ==
  /\ workers' = [workers EXCEPT ![w].hpc = "done",
                                ![w].rows = Cardinality(ConnectedRows),
                                ![w].incs = workers[w].incs + n]
  /\ Settle(w, "recheck", 0)

\* restoreClient's ready handler: the count of the user's connected rows
ReadyCount(w) ==
  /\ workers[w].hpc = "r_count"
  /\ IF Cardinality(ConnectedRows) = 1
     THEN workers' = [workers EXCEPT ![w].hpc = "r_usage"] /\ UNCHANGED req
     ELSE ReadyResolve(w, 0)
  /\ UNCHANGED <<stores, startup, hooks, wallet, logs, usage, session_rows, clients>>

\* ready handler: incrementSubscriptionUsage(activeSubscription.id, 0, 1)
ReadyUsage(w) ==
  /\ workers[w].hpc = "r_usage"
  /\ numbers_used' = numbers_used + 1
  /\ IF workers[w].kind = "init"
     THEN /\ workers' = [workers EXCEPT ![w].hpc = "r_others",
                                        ![w].incs = workers[w].incs + 1]
          /\ UNCHANGED req
     ELSE ReadyResolve(w, 1)
  /\ UNCHANGED <<stores, startup, hooks, wallet, logs, messages_used, session_rows, clients>>

\* initializeClient's ready handler: disconnect the user's other sessions
ReadyOthers(w) ==
  LET k == workers[w] IN
  /\ k.hpc = "r_others"
  /\ UpdateRows(Sessions \ {k.session}, "disconnected")
  /\ workers' = [workers EXCEPT ![w].hpc = "done",
                   ![w].rows = Cardinality(ConnectedRows \cap {k.session})]
  /\ UNCHANGED <<stores, startup, hooks, wallet, logs, usage, clients, req>>

\* the worker emits auth_failure
AuthFailure(w) ==
  LET k == workers[w] IN
  /\ k.stage = "up"
  /\ ~k.info
  /\ ~k.closed
  /\ workers' = [workers EXCEPT ![w].stage = "failed", ![w].resolved = TRUE]
  /\ IF k.kind = "restore" /\ k.resolved
     THEN UNCHANGED <<session_rows, clients, req>>
     ELSE /\ UpdateRows({k.session}, "failed")
          /\ clients' = [clients EXCEPT ![k.session] = None]
          /\ IF k.kind = "restore" THEN Settle(w, "done", 503) ELSE UNCHANGED req
  /\ UNCHANGED <<stores, startup, hooks, wallet, logs, usage>>

\* restoreClient's 120 s timer: the client is stored but not ready (the update
\* to failed is built and never awaited, so it does not run)
RestoreTimeout(w) ==
  LET k == workers[w] IN
  /\ k.kind = "restore"
  /\ k.stage = "up"
  /\ ~k.resolved
  /\ ~k.info
  /\ workers' = [workers EXCEPT ![w].resolved = TRUE]
  /\ Settle(w, "recheck", 0)
  /\ UNCHANGED <<stores, startup, hooks, wallet, logs, usage, session_rows, clients>>

\* the worker emits disconnected (the phone logs out, after the ready handler)
Disconnected(w) ==
  LET k == workers[w] IN
  /\ k.stage = "up"
  /\ k.info
  /\ k.hpc \in {"skipped", "done"}
  /\ ~k.closed
  /\ workers' = [workers EXCEPT ![w].closed = TRUE]
  /\ UpdateRows({k.session}, "disconnected")
  /\ \E has \in (IF k.kind = "restore" /\ whatsapp_sessions[k.session] # None
                  THEN BuilderHasCatch ELSE {TRUE}) :
       clients' = IF has THEN [clients EXCEPT ![k.session] = None] ELSE clients
  /\ UNCHANGED <<stores, startup, hooks, wallet, logs, usage, req>>

\* ------------------------------------------------------------------ connect

\* POST /api/whatsapp/connect: checkSubscriptionLimits(userId, 0, 1)
ConnectSub(r) ==
  LET q == req[r] IN
  /\ q.pc = "c_sub"
  /\ IF checkSubscriptionLimits(0, 1) THEN Goto(r, q, "c_existing") ELSE Respond(r, q, 403)
  /\ UNCHANGED <<stores, startup, hooks, wallet, logs, usage, registry>>

\* connect: the user must have no connected session
ConnectExisting(r) ==
  LET q == req[r] IN
  /\ q.pc = "c_existing"
  /\ IF ConnectedRows # {} THEN Respond(r, q, 400) ELSE Goto(r, q, "c_init")
  /\ UNCHANGED <<stores, startup, hooks, wallet, logs, usage, registry>>

\* initializeClient: no other connected session, then new Client and initialize()
ConnectInit(r) ==
  LET q == req[r] IN
  /\ q.pc = "c_init"
  /\ IF ConnectedRows \ {q.sid} # {}
     THEN Respond(r, q, 500) /\ UNCHANGED workers
     ELSE /\ FreeSlots # {}
          /\ workers' = [workers EXCEPT ![NewWorker] = NewClient(q.sid, "init", r)]
          /\ Goto(r, [q EXCEPT !.client = NewWorker], "await")
  /\ UNCHANGED <<stores, startup, hooks, wallet, logs, usage, session_rows, clients>>

CheckSubscription(r) ==
  LET q == req[r] IN
  /\ q.pc = "sub"
  /\ IF checkSubscriptionLimits(Needed(q), 0)
     THEN Goto(r, [q EXCEPT !.sub = TRUE], "rate")
     ELSE Respond(r, q, 403)
  /\ UNCHANGED <<stores, startup, hooks, wallet, logs, usage, registry>>

\* automation_logs rows of the user in the window (every step of the model lies
\* within one minute, so the three windows hold the same rows)
LogCount == logs_last_minute + Cardinality(automation_logs)

\* src/index.js checkRateLimit: the window that rejects, or "none"
checkRateLimit(messageCount) ==
  IF LogCount + messageCount > rate_limit_per_minute THEN "rate_limit_minute"
  ELSE IF LogCount + messageCount > rate_limit_per_hour THEN "rate_limit_hour"
  ELSE IF LogCount + messageCount > rate_limit_per_day THEN "rate_limit_day"
  ELSE None

CheckRate(r) ==
  LET q == req[r] IN
  /\ q.pc = "rate"
  /\ IF checkRateLimit(Needed(q)) = None
     THEN Goto(r, q, "read")
     ELSE Respond(r, q, 429)
  /\ UNCHANGED <<stores, startup, hooks, wallet, logs, usage, registry>>

\* ------------------------------------------------------------- wallet debit

\* JavaScript a || b on numbers: 0 is falsy
JsOr(a, b) == IF a = 0 THEN b ELSE a

DeductEndpoints == {"send-otp", "v1-otp", "v1-send"}

\* the balance a handler works with after reading the profile row:
\* deductBalance falls back to DEFAULT_WALLET_BALANCE, the other handlers to 0
currentBalance(ep) ==
  IF ep \in DeductEndpoints
  THEN JsOr(wallet_balance, DEFAULT_WALLET_BALANCE)
  ELSE JsOr(wallet_balance, 0)

\* the reference_id prefix of an endpoint's debit
RefTag(ep) ==
  CASE ep = "send-otp" -> "otp"
    [] ep = "v1-otp" -> "api_otp"
    [] ep = "v1-send" -> "api"
    [] ep = "send-announcement" -> "announcement"
    [] ep = "v1-send-bulk" -> "api_bulk"
    [] OTHER -> "test_msg"

\* select wallet_balance, then the sufficiency check
ReadBalance(r) ==
  LET q == req[r]
      cur == currentBalance(q.ep)
  IN /\ q.pc = "read"
     /\ IF cur < Cost(q)
        THEN Respond(r, [q EXCEPT !.bal = wallet_balance, !.cur = cur], 402)
        ELSE Goto(r, [q EXCEPT !.bal = wallet_balance, !.cur = cur],
                  IF q.ep = "test-message" THEN "resolve" ELSE "write")
     /\ UNCHANGED <<stores, startup, hooks, wallet, logs, usage, registry>>

\* update wallet_balance = currentBalance - cost
WriteBalance(r) ==
  LET q == req[r] IN
  /\ q.pc = "write"
  /\ wallet_balance' = q.cur - Cost(q)
  /\ Goto(r, [q EXCEPT !.debit = Cost(q)], "txn")
  /\ UNCHANGED <<wallet_transactions, start_balance, stores, startup, hooks, logs, usage, registry>>

\* insert the debit row; then the recipient format check of the single sends
InsertDebit(r) ==
  LET q == req[r]
      row == [req |-> r, type |-> "debit", amount |-> q.debit,
              before |-> q.cur, after |-> q.cur - q.debit, ref |-> <<RefTag(q.ep)>>]
      valid == ValidNumber(formattedNumber(q.rcps[1]))
  IN /\ q.pc = "txn"
     /\ wallet_transactions' = wallet_transactions \cup {row}
     /\ CASE q.ep \in BulkEndpoints -> Goto(r, [q EXCEPT !.i = 1], "loop")
          [] q.ep = "test-message" -> Goto(r, q, "log")
          [] q.ep = "v1-otp" ->
               IF valid THEN Goto(r, q, "resolve")
               ELSE Respond(r, [q EXCEPT !.fail = "bad"], 400)
          [] OTHER ->
               IF valid THEN Goto(r, q, "resolve")
               ELSE Goto(r, [q EXCEPT !.fail = "bad"], "refund_write")
     /\ UNCHANGED <<wallet_balance, start_balance, stores, startup, hooks, logs, usage, registry>>

\* ------------------------------------------------------ single-message sends

\* client.getNumberId: an id, or nothing / an exception
Resolve(r) ==
  LET q == req[r] IN
  /\ q.pc = "resolve"
  /\ \E found \in (IF workers[q.client].closed THEN {FALSE} ELSE BOOLEAN) :
       IF found \/ q.ep = "test-message" THEN Goto(r, q, "send")
       ELSE IF q.ep = "v1-otp" THEN Respond(r, [q EXCEPT !.fail = "unresolved"], 400)
       ELSE Goto(r, [q EXCEPT !.fail = "unresolved"], "refund_write")
  /\ UNCHANGED <<stores, startup, hooks, wallet, logs, usage, registry>>

\* what client.sendMessage can do: on a closed page it throws "Session closed";
\* it throws the same when the browser is gone, which page.isClosed() does not show
SendOutcomes(c) == IF workers[c].closed THEN {"closed"} ELSE {"ok", "error", "closed"}

\* client.sendMessage of a single-message endpoint
Send(r) ==
  LET q == req[r] IN
  /\ q.pc = "send"
  /\ q.ep \in SingleEndpoints
  /\ \E out \in SendOutcomes(q.client) :
       IF out = "ok"
       THEN Goto(r, [q EXCEPT !.sent = 1],
                 CASE q.ep = "v1-send" -> "usage"
                   [] q.ep = "test-message" -> "write"
                   [] OTHER -> "log")
       ELSE IF q.ep = "test-message" THEN Respond(r, [q EXCEPT !.fail = out], 500)
       ELSE Goto(r, [q EXCEPT !.fail = out], "refund_write")
  /\ UNCHANGED <<stores, startup, hooks, wallet, logs, usage, registry>>

\* ------------------------------------------------------------ log and usage

LogType(ep) ==
  CASE ep \in {"send-otp", "v1-otp"} -> "otp"
    [] ep = "send-announcement" -> "announcement"
    [] OTHER -> "api_message"

\* insert into automation_logs
InsertLog(r) ==
  LET q == req[r]
      row == [req |-> r, type |-> LogType(q.ep),
              status |-> IF q.sent > 0 THEN "sent" ELSE "failed"]
  IN /\ q.pc = "log"
     /\ automation_logs' = automation_logs \cup {row}
     /\ CASE q.ep = "send-otp" -> Goto(r, q, "usage")
          \* subscriptionCheck is not declared in this handler: a ReferenceError,
          \* caught by the catch (sendError) around the send
          [] q.ep = "v1-otp" -> Goto(r, [q EXCEPT !.fail = "reference_error"], "refund_write")
          [] q.ep = "send-announcement" /\ q.sub /\ q.sent > 0 -> Goto(r, q, "usage")
          [] OTHER -> Respond(r, q, 200)
     /\ UNCHANGED <<stores, startup, hooks, wallet, logs_last_minute, usage, registry>>

\* incrementSubscriptionUsage(subscription_id, sent, 0)
IncrementUsage(r) ==
  LET q == req[r] IN
  /\ q.pc = "usage"
  /\ messages_used' = messages_used + q.sent
  /\ IF q.ep = "v1-send"
     THEN Goto(r, [q EXCEPT !.counted = q.sent], "log")
     ELSE Respond(r, [q EXCEPT !.counted = q.sent], 200)
  /\ UNCHANGED <<stores, startup, hooks, wallet, logs, numbers_used, registry>>

\* ------------------------------------------------------------------ refunds

\* what a handler adds back: one message for a single send, refundAmount for a bulk
RefundAmount(q) == IF q.ep \in BulkEndpoints THEN q.refund ELSE MESSAGE_COST_IQD

\* update wallet_balance = balanceAfter + refund (balanceAfter is the handler's own)
RefundWrite(r) ==
  LET q == req[r]
      n == [q EXCEPT !.refund = RefundAmount(q)]
  IN /\ q.pc = "refund_write"
     /\ wallet_balance' = (q.cur - q.debit) + RefundAmount(q)
     /\ IF q.fail \in {"bad", "unresolved"}
        THEN Respond(r, n, 400)
        ELSE Goto(r, n, "refund_txn")
     /\ UNCHANGED <<wallet_transactions, start_balance, stores, startup, hooks, logs, usage, registry>>

\* insert the credit row of the refund; send-otp then drops a closed session's client
RefundTxn(r) ==
  LET q == req[r]
      row == [req |-> r, type |-> "credit", amount |-> q.refund,
              before |-> q.cur - q.debit, after |-> (q.cur - q.debit) + q.refund,
              ref |-> <<"refund", RefTag(q.ep)>>]
  IN /\ q.pc = "refund_txn"
     /\ wallet_transactions' = wallet_transactions \cup {row}
     /\ CASE q.ep = "send-otp" /\ q.fail = "closed" ->
               /\ clients' = [clients EXCEPT ![q.sid] = None]
               /\ Goto(r, q, "close_row")
          [] q.ep = "send-announcement" ->
               Goto(r, q, "log") /\ UNCHANGED clients
          [] q.ep = "v1-send-bulk" ->
               /\ IF q.sub /\ q.sent > 0 THEN Goto(r, q, "usage") ELSE Respond(r, q, 200)
               /\ UNCHANGED clients
          [] OTHER -> Respond(r, q, 500) /\ UNCHANGED clients
     /\ UNCHANGED <<wallet_balance, start_balance, stores, startup, hooks, logs, usage, session_rows, workers>>

\* send-otp after "Session closed": the row update, then the 400
CloseRow(r) ==
  LET q == req[r] IN
  /\ q.pc = "close_row"
  /\ UpdateRows({q.sid}, "disconnected")
  /\ Respond(r, q, 400)
  /\ UNCHANGED <<stores, startup, hooks, wallet, logs, usage, clients, workers>>

\* --------------------------------------------------------------- bulk sends

\* after the loop: the refund if refundAmount > 0, then the log / usage / response
SettleRec(q) ==
  IF q.refund > 0 THEN [q EXCEPT !.pc = "refund_write"]
  ELSE IF q.ep = "send-announcement" THEN [q EXCEPT !.pc = "log"]
  ELSE IF q.sub /\ q.sent > 0 THEN [q EXCEPT !.pc = "usage"]
  ELSE [q EXCEPT !.pc = "done", !.code = 200]

\* the next recipient, or the end of the loop
ContinueRec(q) ==
  LET n == [q EXCEPT !.i = q.i + 1] IN
  IF n.i > Len(n.rcps) THEN SettleRec(n) ELSE [n EXCEPT !.pc = "loop"]

\* one more failed recipient: errors.push and refundAmount += MESSAGE_COST_IQD
Failed(q) == [q EXCEPT !.failed = q.failed + 1, !.refund = q.refund + MESSAGE_COST_IQD]

\* the first recipient at which the client was found not ready or sendMessage
\* threw "Session closed"
Stopped(q) == [q EXCEPT !.stop = IF q.stop = 0 THEN q.i ELSE q.stop]

\* top of the loop body: the readiness check and (announcement) the format check
BulkCheck(r) ==
  LET q == req[r] IN
  /\ q.pc = "loop"
  /\ IF ~isClientReady(q.client)
     THEN /\ req' = [req EXCEPT ![r] = SettleRec(Failed(Stopped(q)))]
          /\ IF q.ep = "send-announcement" THEN Evict(q.sid)
             ELSE UNCHANGED <<session_rows, clients>>
     ELSE /\ req' = [req EXCEPT ![r] =
                 IF q.ep = "v1-send-bulk" THEN [q EXCEPT !.pc = "b_send"]
                 ELSE IF ValidNumber(formattedNumber(q.rcps[q.i]))
                 THEN [q EXCEPT !.pc = "b_resolve"]
                 ELSE ContinueRec(Failed(q))]
          /\ UNCHANGED <<session_rows, clients>>
  /\ UNCHANGED <<stores, startup, hooks, wallet, logs, usage, workers>>

\* send-announcement: client.getNumberId for recipient i
BulkResolve(r) ==
  LET q == req[r] IN
  /\ q.pc = "b_resolve"
  /\ \E found \in (IF workers[q.client].closed THEN {FALSE} ELSE BOOLEAN) :
       req' = [req EXCEPT ![r] =
                 IF found THEN [q EXCEPT !.pc = "b_send"] ELSE ContinueRec(Failed(q))]
  /\ UNCHANGED <<stores, startup, hooks, wallet, logs, usage, registry>>

\* client.sendMessage for recipient i
BulkSend(r) ==
  LET q == req[r] IN
  /\ q.pc = "b_send"
  /\ \E out \in SendOutcomes(q.client) :
       IF out = "ok"
       THEN /\ req' = [req EXCEPT ![r] = ContinueRec([q EXCEPT !.sent = q.sent + 1])]
            /\ UNCHANGED <<session_rows, clients>>
       ELSE IF out = "closed" /\ q.ep = "send-announcement"
       THEN /\ req' = [req EXCEPT ![r] = SettleRec(Failed(Stopped([q EXCEPT !.fail = out])))]
            /\ Evict(q.sid)
       ELSE /\ req' = [req EXCEPT ![r] =
                   ContinueRec(Failed(IF out = "closed" THEN Stopped([q EXCEPT !.fail = out])
                                      ELSE [q EXCEPT !.fail = out]))]
            /\ UNCHANGED <<session_rows, clients>>
  /\ UNCHANGED <<stores, startup, hooks, wallet, logs, usage, workers>>

\* ------------------------------------------------------------ specification

Next ==
  \/ \E w \in Workers : PageClose(w)
  \/ \E r \in Req :
       \/ Start(r)
       \/ GateSession(r)
       \/ Poll(r)
       \/ CheckSubscription(r)
       \/ CheckRate(r)
       \/ ReadBalance(r)
       \/ WriteBalance(r)
       \/ InsertDebit(r)
       \/ Resolve(r)
       \/ Send(r)
       \/ InsertLog(r)
       \/ IncrementUsage(r)
       \/ RefundWrite(r)
       \/ RefundTxn(r)
       \/ CloseRow(r)
       \/ BulkCheck(r)
       \/ BulkResolve(r)
       \/ BulkSend(r)
       \/ RestoreOnDemand(r)
  \/ \E w \in Workers :
       \/ InitializeDone(w)
       \/ InitializeFail(w)
       \/ ReadyEvent(w)
       \/ ReadyRow(w)
       \/ ReadyCount(w)
       \/ ReadyUsage(w)
       \/ AuthFailure(w)
       \/ RestoreTimeout(w)

Spec == Init /\ [][Next]_vars

\* ------------------------------------------------- specification: rate limit

\* The user is two messages short of the minute's limit, the wallet covers four
\* messages, and session s1 is connected with its worker ready.
InitRate ==
  /\ wallet_balance = 4 * MESSAGE_COST_IQD
  /\ messages_used = 0
  /\ logs_last_minute = rate_limit_per_minute - 2
  /\ start_balance = wallet_balance
  /\ wallet_transactions = {}
  /\ automation_logs = {}
  /\ numbers_used = 1
  /\ whatsapp_sessions = [s \in Sessions |-> IF s = "s1" THEN "connected" ELSE None]
  /\ stale = {}
  /\ clients = [s \in Sessions |-> IF s = "s1" THEN "w1" ELSE None]
  /\ workers = [w \in Workers |->
       IF w = "w1" THEN ReadyWorker("s1") ELSE NoWorker]
  /\ req = [r \in Req |-> IdleReq]
  /\ NoWebhooks
  /\ startup = Listening
  /\ NoKeys

\* the send endpoints of the dashboard, both behind checkRateLimit
RateEndpoints == {"send-otp", "send-announcement"}

\* a send of the dashboard arrives
StartRate(r) ==
  /\ req[r].pc = "idle"
  /\ \A o \in Req : o < r => req[o].pc # "idle"
  /\ \E ep \in RateEndpoints : \E rcps \in RecipientLists(ep) :
       req' = [req EXCEPT ![r] =
                 [IdleReq EXCEPT !.ep = ep, !.sid = "s1", !.rcps = rcps, !.pc = "gate"]]
  /\ UNCHANGED <<stores, startup, hooks, wallet, logs, usage, registry>>

NextRate ==
  \E r \in Req :
    \/ StartRate(r)
    \/ GateSession(r)
    \/ CheckSubscription(r)
    \/ CheckRate(r)
    \/ ReadBalance(r)
    \/ WriteBalance(r)
    \/ InsertDebit(r)
    \/ Resolve(r)
    \/ Send(r)
    \/ InsertLog(r)
    \/ IncrementUsage(r)
    \/ RefundWrite(r)
    \/ RefundTxn(r)
    \/ CloseRow(r)
    \/ BulkCheck(r)
    \/ BulkResolve(r)
    \/ BulkSend(r)

SpecRate == InitRate /\ [][NextRate]_vars

\* ------------------------------------------- specification: session lifecycle

\* the wallet of this specification's user does not cover a message, so a send
\* that passes the session gate ends at the balance check
SessionBalance == 5

\* The process has just started (startServer): the rows are what the last run and
\* the dashboard left, the clients Map is empty, and restoreActiveSessions has
\* called restoreClient for each connected row unless its query failed.
InitSession ==
  /\ wallet_balance = SessionBalance
  /\ start_balance = wallet_balance
  /\ wallet_transactions = {}
  /\ automation_logs = {}
  /\ logs_last_minute = 0
  /\ messages_used = 0
  /\ \E st \in {"connected", "connecting"} :
       /\ whatsapp_sessions = [s \in Sessions |-> IF s = "s1" THEN st ELSE "connecting"]
       /\ numbers_used \in (IF st = "connected" THEN {0, 1} ELSE {0})
       /\ \E restored \in (IF st = "connected" THEN BOOLEAN ELSE {FALSE}) :
            workers = [w \in Workers |->
                         IF w = "w1" /\ restored THEN NewClient("s1", "restore", 0)
                         ELSE NoWorker]
  /\ stale = {}
  /\ clients = [s \in Sessions |-> None]
  /\ req = [r \in Req |-> IdleReq]
  /\ NoWebhooks
  /\ startup = Listening
  /\ NoKeys

\* a connect for either session or an OTP send through s1 arrives
StartSession(r) ==
  /\ req[r].pc = "idle"
  /\ \A o \in Req : o < r => req[o].pc # "idle"
  /\ \/ \E s \in Sessions :
          req' = [req EXCEPT ![r] = [IdleReq EXCEPT !.ep = "connect", !.sid = s,
                                                    !.pc = "c_sub"]]
     \/ req' = [req EXCEPT ![r] = [IdleReq EXCEPT !.ep = "send-otp", !.sid = "s1",
                                                  !.rcps = <<GoodRecipient>>,
                                                  !.pc = "gate"]]
  /\ UNCHANGED <<stores, startup, hooks, wallet, logs, usage, registry>>

NextSession ==
  \/ FiveMinutesPass
  \/ \E r \in Req :
       \/ StartSession(r)
       \/ ConnectSub(r)
       \/ ConnectExisting(r)
       \/ ConnectInit(r)
       \/ GateSession(r)
       \/ RestoreOnDemand(r)
       \/ CheckSubscription(r)
       \/ CheckRate(r)
       \/ ReadBalance(r)
  \/ \E w \in Workers :
       \/ InitializeDone(w)
       \/ InitializeFail(w)
       \/ ReadyEvent(w)
       \/ ReadyRow(w)
       \/ ReadyCount(w)
       \/ ReadyUsage(w)
       \/ ReadyOthers(w)
       \/ AuthFailure(w)
       \/ RestoreTimeout(w)
       \/ Disconnected(w)

SpecSession == InitSession /\ [][NextSession]_vars

\* ------------------------------------------------------------------ webhooks

\* webhook ids; the users and sessions a row can name; event and webhook types
HookIds == 1..MaxHooks
Users == {User, "u2"}
EventTypes == {"otp", "announcement"}
WebhookTypes == EventTypes \cup {"all"}

\* max_retries is NULL (<<>>) or an integer (<<n>>); the PUT endpoint stores what
\* it is given, a negative number included
MaxRetriesValues == {<<>>} \cup {<<n>> : n \in -1..MaxStoredRetries}

\* JavaScript v || d on a nullable number: NULL and 0 are falsy
JsOrNull(v, d) == IF v = <<>> THEN d ELSE JsOr(v[1], d)

\* the rows a webhook can be: whose it is, what it listens to, its retry settings
HookRows ==
  [user : Users, session : Sessions, type : WebhookTypes, is_active : BOOLEAN,
   retry_on_failure : BOOLEAN, max_retries : MaxRetriesValues,
   total_calls : {0}, success_calls : {0}, failed_calls : {0}]

\* a callWebhook invocation: its loop variable, maxRetries, the POSTs made and
\* their outcomes in order
NoCall == [pc |-> "idle", attempt |-> 0, maxRetries |-> 0, posts |-> 0, results |-> <<>>]

\* the query without its is_active filter
SelectWebhooksAnyState(userId, sessionId, eventType) ==
  {h \in HookIds :
     /\ webhooks[h].user = userId
     /\ webhooks[h].session = sessionId
     /\ webhooks[h].type \in {eventType, "all"}}

\* triggerWebhooks' query: user_id, session_id, is_active = true and
\* webhook_type in [eventType, 'all']
SelectWebhooks(userId, sessionId, eventType) ==
  {h \in HookIds :
     /\ webhooks[h].user = userId
     /\ webhooks[h].session = sessionId
     /\ webhooks[h].is_active
     /\ webhooks[h].type \in {eventType, "all"}}

\* The webhooks table holds MaxHooks rows, distinct in (user, session, type);
\* the second row keeps the column defaults for its retry settings.
InitWebhook ==
  /\ wallet_balance = DEFAULT_WALLET_BALANCE
  /\ start_balance = wallet_balance
  /\ wallet_transactions = {}
  /\ automation_logs = {}
  /\ logs_last_minute = 0
  /\ messages_used = 0
  /\ numbers_used = 1
  /\ whatsapp_sessions = [s \in Sessions |-> "connected"]
  /\ stale = {}
  /\ clients = [s \in Sessions |-> None]
  /\ workers = [w \in Workers |-> NoWorker]
  /\ req = [r \in Req |-> IdleReq]
  /\ webhooks \in [HookIds -> HookRows]
  /\ \A h \in HookIds : h > 1 =>
       /\ webhooks[h].retry_on_failure
       /\ webhooks[h].max_retries = <<DefaultMaxRetries>>
  /\ \A g, h \in HookIds : g # h =>
       <<webhooks[g].user, webhooks[g].session, webhooks[g].type>> #
       <<webhooks[h].user, webhooks[h].session, webhooks[h].type>>
  /\ event = NoEvent
  /\ calls = [h \in HookIds |-> NoCall]
  /\ webhook_logs = {}
  /\ startup = Listening
  /\ NoKeys

\* triggerWebhooks(userId, sessionId, eventType, payload): the query, then one
\* un-awaited callWebhook per row, each entering its loop
TriggerWebhooks ==
  /\ event = NoEvent
  /\ \E T \in EventTypes :
       /\ event' = [user |-> User, session |-> "s1", type |-> T]
       /\ calls' = [h \in HookIds |->
            IF h \in SelectWebhooks(User, "s1", T)
            THEN LET maxRetries == JsOrNull(webhooks[h].max_retries, DefaultMaxRetries)
                 IN [NoCall EXCEPT !.pc = IF 1 <= maxRetries THEN "post" ELSE "done",
                                   !.attempt = 1,
                                   !.maxRetries = maxRetries]
            ELSE NoCall]
  /\ UNCHANGED <<stores, startup, wallet, logs, usage, registry, req, webhooks, webhook_logs>>

\* makeWebhookRequest: one POST; it resolves on a status in [200, 300) and
\* rejects on any other status, an error or the 10 s timeout
makeWebhookRequest(h) ==
  /\ calls[h].pc = "post"
  /\ \E result \in {"ok", "fail"} :
       calls' = [calls EXCEPT ![h].posts = @ + 1,
                              ![h].results = Append(@, result),
                              ![h].pc = "log"]
  /\ UNCHANGED <<stores, startup, wallet, logs, usage, registry, req, webhooks, event, webhook_logs>>

\* the webhook_logs row of the attempt; then return result after the stats, the
\* stats and throw on the last attempt, or the next turn of the loop
LogCall(h) ==
  LET c == calls[h]
      ok == c.results[Len(c.results)] = "ok"
  IN /\ c.pc = "log"
     /\ webhook_logs' = webhook_logs \cup
          {[webhook_id |-> h, attempt_number |-> c.attempt, success |-> ok,
            is_retry |-> c.attempt > 1]}
     /\ calls' = [calls EXCEPT ![h].pc =
          IF ok \/ c.attempt = c.maxRetries THEN "stats"
          ELSE IF webhooks[h].retry_on_failure THEN "wait"
          ELSE "next"]
     /\ UNCHANGED <<stores, startup, wallet, logs, usage, registry, req, webhooks, event>>

\* rpc update_webhook_stats, then the return or the throw
UpdateStats(h) ==
  LET c == calls[h]
      ok == c.results[Len(c.results)] = "ok"
  IN /\ c.pc = "stats"
     /\ webhooks' = [webhooks EXCEPT
          ![h].total_calls = @ + 1,
          ![h].success_calls = IF ok THEN @ + 1 ELSE @,
          ![h].failed_calls = IF ok THEN @ ELSE @ + 1]
     /\ calls' = [calls EXCEPT ![h].pc = "done"]
     /\ UNCHANGED <<stores, startup, wallet, logs, usage, registry, req, event, webhook_logs>>

\* the retry delay has passed (retry_on_failure !== false)
RetryDelay(h) ==
  /\ calls[h].pc = "wait"
  /\ calls' = [calls EXCEPT ![h].pc = "next"]
  /\ UNCHANGED <<stores, startup, wallet, logs, usage, registry, req, webhooks, event, webhook_logs>>

\* for (...; attempt <= maxRetries; attempt++): the next turn of the loop
NextAttempt(h) ==
  /\ calls[h].pc = "next"
  /\ calls' = [calls EXCEPT ![h].attempt = @ + 1, ![h].pc = "post"]
  /\ UNCHANGED <<stores, startup, wallet, logs, usage, registry, req, webhooks, event, webhook_logs>>

NextWebhook ==
  \/ TriggerWebhooks
  \/ \E h \in HookIds :
       \/ makeWebhookRequest(h)
       \/ LogCall(h)
       \/ UpdateStats(h)
       \/ RetryDelay(h)
       \/ NextAttempt(h)

SpecWebhook == InitWebhook /\ [][NextWebhook]_vars

\* ----------------------------------------------------------------- API keys

\* the runs of the ready handler of one session's worker
Runs == 1..MaxReady

\* the path a session's worker was created on
Paths == {"init", "restore"}

\* the active api_keys rows of session s
KeysOf(s) == {k \in api_keys : k.session = s}

\* Each session has a worker that authenticated: a new connect (row connecting,
\* no key yet) or a restoration (row connected, with the key of its first connect).
InitKeys ==
  /\ wallet_balance = DEFAULT_WALLET_BALANCE
  /\ start_balance = wallet_balance
  /\ wallet_transactions = {}
  /\ automation_logs = {}
  /\ logs_last_minute = 0
  /\ messages_used = 0
  /\ stale = {}
  /\ clients = [s \in Sessions |-> None]
  /\ workers = [w \in Workers |-> NoWorker]
  /\ req = [r \in Req |-> IdleReq]
  /\ NoWebhooks
  /\ NoStorage
  /\ NoSubscriptions
  /\ NoFanout
  /\ startup = Listening
  /\ \E path \in [Sessions -> Paths] :
       /\ whatsapp_sessions = [s \in Sessions |->
            IF path[s] = "init" THEN "connecting" ELSE "connected"]
       /\ api_keys = {[session |-> s, run |-> 0] : s \in {x \in Sessions : path[x] = "restore"}}
       /\ ready_handlers = [s \in Sessions |->
            [path |-> path[s], pc |-> [i \in Runs |-> "idle"]]]
  /\ numbers_used = Cardinality(ConnectedRows)

HandlerGoto(s, i, pc) ==
  ready_handlers' = [ready_handlers EXCEPT ![s].pc[i] = pc]

\* the worker of s emits ready (again): a run of its handler starts; on the
\* restoration path a run after the first returns at once (isResolved)
HandlerReady(s, i) ==
  LET h == ready_handlers[s] IN
  /\ h.pc[i] = "idle"
  /\ \A j \in Runs : j < i => h.pc[j] # "idle"
  /\ HandlerGoto(s, i, IF h.path = "restore" /\ i > 1 THEN "done" ELSE "row")
  /\ UNCHANGED <<fanout, api_keys, storage, subs, startup, hooks, wallet, logs, usage, registry, req>>

\* update the row to connected
HandlerRow(s, i) ==
  LET h == ready_handlers[s] IN
  /\ h.pc[i] = "row"
  /\ UpdateRows({s}, "connected")
  /\ HandlerGoto(s, i, IF h.path = "init" THEN "usage" ELSE "count")
  /\ UNCHANGED <<fanout, api_keys, storage, subs, startup, hooks, wallet, logs, usage, clients, workers, req>>

\* restoreClient: the count of the user's connected rows decides the increment
HandlerCount(s, i) ==
  /\ ready_handlers[s].pc[i] = "count"
  /\ HandlerGoto(s, i, IF Cardinality(ConnectedRows) = 1 THEN "usage" ELSE "done")
  /\ UNCHANGED <<fanout, api_keys, storage, subs, startup, hooks, wallet, logs, usage, registry, req>>

\* incrementSubscriptionUsage(activeSubscription.id, 0, 1)
HandlerUsage(s, i) ==
  LET h == ready_handlers[s] IN
  /\ h.pc[i] = "usage"
  /\ numbers_used' = numbers_used + 1
  /\ HandlerGoto(s, i, IF h.path = "init" THEN "others" ELSE "done")
  /\ UNCHANGED <<fanout, api_keys, storage, subs, startup, hooks, wallet, logs, messages_used, registry, req>>

\* initializeClient: the user's other sessions are set to disconnected
HandlerOthers(s, i) ==
  /\ ready_handlers[s].pc[i] = "others"
  /\ UpdateRows(Sessions \ {s}, "disconnected")
  /\ HandlerGoto(s, i, "key")
  /\ UNCHANGED <<fanout, api_keys, storage, subs, startup, hooks, wallet, logs, usage, clients, workers, req>>

\* select the session's active key with .single(): a row only when there is
\* exactly one, else no data
HandlerKeySelect(s, i) ==
  /\ ready_handlers[s].pc[i] = "key"
  /\ HandlerGoto(s, i, IF Cardinality(KeysOf(s)) = 1 THEN "done" ELSE "insert")
  /\ UNCHANGED <<fanout, api_keys, storage, subs, startup, hooks, wallet, logs, usage, registry, req>>

\* if (!existingKey): insert a new active key
HandlerKeyInsert(s, i) ==
  /\ ready_handlers[s].pc[i] = "insert"
  /\ api_keys' = api_keys \cup {[session |-> s, run |-> i]}
  /\ HandlerGoto(s, i, "done")
  /\ UNCHANGED <<fanout, storage, subs, startup, hooks, wallet, logs, usage, registry, req>>

NextKeys ==
  \E s \in Sessions, i \in Runs :
    \/ HandlerReady(s, i)
    \/ HandlerRow(s, i)
    \/ HandlerCount(s, i)
    \/ HandlerUsage(s, i)
    \/ HandlerOthers(s, i)
    \/ HandlerKeySelect(s, i)
    \/ HandlerKeyInsert(s, i)

SpecKeys == InitKeys /\ [][NextKeys]_vars

\* ------------------------------------------------------------ session storage

FileNames == {"f", "g"}
DirName == "d"
Bytes == {1, 2}

\* relative paths of files: up to MaxDepth - 1 directories, then a file name
FilePaths ==
  {[k \in 1..n |-> IF k = n THEN f ELSE DirName] : n \in 1..MaxDepth, f \in FileNames}

\* a tree: files with their bytes, one file per path
Trees ==
  {tr \in SUBSET [path : FilePaths, bytes : Bytes] :
     \A a, b \in tr : a.path = b.path => a = b}

IsPrefix(d, q) == Len(d) < Len(q) /\ SubSeq(q, 1, Len(d)) = d

\* fs.readdirSync(dir): the names directly under dir
ReadDir(tr, dir) == {x.path[Len(dir) + 1] : x \in {y \in tr : IsPrefix(dir, y.path)}}

\* fs.statSync(path).isDirectory()
IsDirectory(tr, q) == \E x \in tr : IsPrefix(q, x.path)

\* getAllFiles(dirPath): the files under dir, directories entered recursively
RECURSIVE getAllFiles(_, _)
getAllFiles(tr, dir) ==
  UNION {IF IsDirectory(tr, Append(dir, n))
         THEN getAllFiles(tr, Append(dir, n))
         ELSE {Append(dir, n)} : n \in ReadDir(tr, dir)}

\* fs.readFileSync(file)
ReadFile(tr, q) == (CHOOSE x \in tr : x.path = q).bytes

\* storage.from(bucket).list(folder): the entries directly in the folder, a
\* sub-folder being listed as one entry with its name
ListFolder(folder) == ReadDir(object_store, folder)

\* storage.from(bucket).download(path): the object at exactly that path, if any
DownloadObject(q) == {x \in object_store : x.path = q}

\* The worker of s1 is ready and its auth directory holds some tree; the bucket
\* is empty.
InitStorage ==
  /\ wallet_balance = DEFAULT_WALLET_BALANCE
  /\ start_balance = wallet_balance
  /\ wallet_transactions = {}
  /\ automation_logs = {}
  /\ logs_last_minute = 0
  /\ messages_used = 0
  /\ numbers_used = 1
  /\ whatsapp_sessions = [s \in Sessions |-> IF s = "s1" THEN "connected" ELSE None]
  /\ stale = {}
  /\ clients = [s \in Sessions |-> IF s = "s1" THEN "w1" ELSE None]
  /\ workers = [w \in Workers |-> IF w = "w1" THEN ReadyWorker("s1") ELSE NoWorker]
  /\ req = [r \in Req |-> IdleReq]
  /\ NoWebhooks
  /\ startup = Listening
  /\ api_keys = {}
  /\ ready_handlers = <<>>
  /\ auth_files \in Trees
  /\ object_store = {}
  /\ restored_files = {}
  /\ storage_pc = [NoStorageOp EXCEPT !.op = "start"]
  /\ NoSubscriptions
  /\ NoFanout

\* backupSession("s1"): every file of getAllFiles is uploaded under
\* <sessionId>/<relative path>
backupSession ==
  /\ storage_pc.op = "start"
  /\ object_store' = {[path |-> <<"s1">> \o q, bytes |-> ReadFile(auth_files, q)] :
                        q \in getAllFiles(auth_files, <<>>)}
  /\ storage_pc' = [storage_pc EXCEPT !.op = "backed"]
  /\ UNCHANGED <<fanout, keys, subs, auth_files, restored_files, startup, hooks, wallet, logs, usage,
                 registry, req>>

\* restoreSession("s1") into an empty directory: list the session's folder,
\* download <sessionId>/<name> for every entry, skip an entry whose download
\* fails, write the others to <sessionDir>/<name>
restoreSession ==
  /\ storage_pc.op = "backed"
  /\ restored_files' =
       UNION {{[path |-> <<n>>, bytes |-> x.bytes] : x \in DownloadObject(<<"s1", n>>)} :
              n \in ListFolder(<<"s1">>)}
  /\ storage_pc' = [storage_pc EXCEPT !.op = "restored"]
  /\ UNCHANGED <<fanout, keys, subs, auth_files, object_store, startup, hooks, wallet, logs, usage,
                 registry, req>>

\* POST /api/whatsapp/disconnect/s1: client.logout(), clients.delete, and
\* deleteSession started without await
DisconnectLogout ==
  /\ storage_pc.op = "backed"
  /\ workers' = [w \in Workers |->
       IF clients["s1"] = w THEN [workers[w] EXCEPT !.closed = TRUE] ELSE workers[w]]
  /\ clients' = [clients EXCEPT !["s1"] = None]
  /\ storage_pc' = [storage_pc EXCEPT !.op = "d_row", !.del = "list"]
  /\ UNCHANGED <<fanout, keys, subs, auth_files, object_store, restored_files, startup, hooks, wallet, logs, usage,
                 session_rows, req>>

\* deleteSession: list the session's folder; nothing listed ends it
DeleteList ==
  /\ storage_pc.del = "list"
  /\ LET pathsToDelete == {<<"s1", n>> : n \in ListFolder(<<"s1">>)} IN
       storage_pc' = [storage_pc EXCEPT !.paths = pathsToDelete,
                        !.del = IF pathsToDelete = {} THEN "done" ELSE "remove"]
  /\ UNCHANGED <<fanout, keys, subs, auth_files, object_store, restored_files, startup, hooks, wallet,
                 logs, usage, registry, req>>

\* deleteSession: remove(pathsToDelete) deletes the objects at those paths
DeleteRemove ==
  /\ storage_pc.del = "remove"
  /\ object_store' = {x \in object_store : x.path \notin storage_pc.paths}
  /\ storage_pc' = [storage_pc EXCEPT !.del = "done"]
  /\ UNCHANGED <<fanout, keys, subs, auth_files, restored_files, startup, hooks, wallet, logs, usage,
                 registry, req>>

\* the disconnect handler deletes the row and answers {success: true}
DisconnectRow ==
  /\ storage_pc.op = "d_row"
  /\ whatsapp_sessions' = [whatsapp_sessions EXCEPT !["s1"] = None]
  /\ stale' = stale \ {"s1"}
  /\ storage_pc' = [storage_pc EXCEPT !.op = "d_done"]
  /\ UNCHANGED <<fanout, keys, subs, auth_files, object_store, restored_files, startup, hooks, wallet,
                 logs, usage, clients, workers, req>>

NextStorage ==
  \/ backupSession
  \/ restoreSession
  \/ DisconnectLogout
  \/ DeleteList
  \/ DeleteRemove
  \/ DisconnectRow

SpecStorage == InitStorage /\ [][NextStorage]_vars

\* ------------------------------------------------------------ subscriptions

\* the rows of subscription_tiers: price_iqd, and messages_limit (NULL: <<>>)
subscription_tiers ==
  [basic    |-> [price_iqd |-> 10000, messages_limit |-> <<1200>>],
   standard |-> [price_iqd |-> 25000, messages_limit |-> <<3000>>],
   premium  |-> [price_iqd |-> 100000, messages_limit |-> <<>>]]

TierKeys == DOMAIN subscription_tiers
\* tierKey of the request body: a tier, or a key no active tier has
TierKeyInputs == TierKeys \cup {"gold"}

Purchases == 1..MaxPurchases
\* wallets that cover no tier, one basic, a basic and a standard, any two tiers
PurchaseBalances == {0, 10000, 35000, 200000}

IdlePurchase == [pc |-> "idle", tierKey |-> None, cur |-> 0, new |-> 0, code |-> 0]

InitSubscriptions ==
  /\ wallet_balance \in PurchaseBalances
  /\ start_balance = wallet_balance
  /\ wallet_transactions = {}
  /\ automation_logs = {}
  /\ logs_last_minute = 0
  /\ messages_used = 0
  /\ numbers_used = 0
  /\ whatsapp_sessions = [s \in Sessions |-> None]
  /\ stale = {}
  /\ clients = [s \in Sessions |-> None]
  /\ workers = [w \in Workers |-> NoWorker]
  /\ req = [r \in Req |-> IdleReq]
  /\ NoWebhooks
  /\ startup = Listening
  /\ api_keys = {}
  /\ ready_handlers = <<>>
  /\ NoStorage
  /\ user_subscriptions = {}
  /\ purchases = [p \in Purchases |-> IdlePurchase]
  /\ NoFanout

PurchaseGoto(p, pc) == purchases' = [purchases EXCEPT ![p].pc = pc]
PurchaseRespond(p, code) == purchases' = [purchases EXCEPT ![p].pc = "done", ![p].code = code]

\* POST /api/subscriptions arrives with { userId, tierKey }
PurchaseStart(p) ==
  /\ purchases[p].pc = "idle"
  /\ \A o \in Purchases : o < p => purchases[o].pc # "idle"
  /\ \E k \in TierKeyInputs :
       purchases' = [purchases EXCEPT ![p].pc = "tier", ![p].tierKey = k]
  /\ UNCHANGED <<fanout, keys, storage, user_subscriptions, startup, hooks, wallet, logs, usage,
                 registry, req>>

\* select the tier; 404 when there is none
SelectTier(p) ==
  /\ purchases[p].pc = "tier"
  /\ IF purchases[p].tierKey \in TierKeys
     THEN PurchaseGoto(p, "read")
     ELSE PurchaseRespond(p, 404)
  /\ UNCHANGED <<fanout, keys, storage, user_subscriptions, startup, hooks, wallet, logs, usage,
                 registry, req>>

\* read wallet_balance; 400 when it does not cover the price
ReadProfile(p) ==
  LET price == subscription_tiers[purchases[p].tierKey].price_iqd
      current == JsOr(wallet_balance, 0)
  IN /\ purchases[p].pc = "read"
     /\ IF current < price
        THEN PurchaseRespond(p, 400)
        ELSE purchases' = [purchases EXCEPT ![p].pc = "write",
                                             ![p].cur = current,
                                             ![p].new = current - price]
     /\ UNCHANGED <<fanout, keys, storage, user_subscriptions, startup, hooks, wallet, logs, usage,
                    registry, req>>

\* update user_profiles set wallet_balance = newBalance
WriteProfile(p) ==
  /\ purchases[p].pc = "write"
  /\ wallet_balance' = purchases[p].new
  /\ PurchaseGoto(p, "txn")
  /\ UNCHANGED <<fanout, keys, storage, user_subscriptions, startup, hooks, wallet_transactions,
                 start_balance, logs, usage, registry, req>>

\* insert the debit row into wallet_transactions
InsertPurchaseTxn(p) ==
  LET q == purchases[p]
      row == [req |-> p, type |-> "debit",
              amount |-> subscription_tiers[q.tierKey].price_iqd,
              before |-> q.cur, after |-> q.new, ref |-> <<"subscription">>]
  IN /\ q.pc = "txn"
     /\ wallet_transactions' = wallet_transactions \cup {row}
     /\ PurchaseGoto(p, "insert")
     /\ UNCHANGED <<fanout, keys, storage, user_subscriptions, startup, hooks, wallet_balance,
                    start_balance, logs, usage, registry, req>>

\* insert into user_subscriptions a row in status active (id is SERIAL);
\* expires_at is NULL for a tier without messages_limit, 30 days otherwise
InsertSubscription(p) ==
  LET q == purchases[p]
      row == [id |-> Cardinality(user_subscriptions) + 1,
              user_id |-> User,
              tier_key |-> q.tierKey,
              status |-> "active",
              expires_at |-> IF subscription_tiers[q.tierKey].messages_limit = <<>>
                             THEN "never" ELSE "30d"]
  IN /\ q.pc = "insert"
     /\ user_subscriptions' = user_subscriptions \cup {row}
     /\ PurchaseRespond(p, 200)
     /\ UNCHANGED <<fanout, keys, storage, startup, hooks, wallet, logs, usage, registry, req>>

NextSubscriptions ==
  \E p \in Purchases :
    \/ PurchaseStart(p)
    \/ SelectTier(p)
    \/ ReadProfile(p)
    \/ WriteProfile(p)
    \/ InsertPurchaseTxn(p)
    \/ InsertSubscription(p)

SpecSubscriptions == InitSubscriptions /\ [][NextSubscriptions]_vars

\* ------------------------------------------------------------------ startup

\* The process starts: startServer() is called, nothing is restored yet.
InitStartup ==
  /\ wallet_balance = DEFAULT_WALLET_BALANCE
  /\ start_balance = wallet_balance
  /\ wallet_transactions = {}
  /\ automation_logs = {}
  /\ logs_last_minute = 0
  /\ messages_used = 0
  /\ whatsapp_sessions \in [Sessions -> {"connected", "connecting", "disconnected"}]
  /\ numbers_used = Cardinality(ConnectedRows)
  /\ stale = {}
  /\ clients = [s \in Sessions |-> None]
  /\ workers = [w \in Workers |-> NoWorker]
  /\ req = [r \in Req |-> IdleReq]
  /\ NoWebhooks
  /\ startup = [pc |-> "bucket", download |-> [s \in Sessions |-> "none"]]
  /\ NoKeys

\* restoreActiveSessions: await ensureBucketExists() (its result is not read)
EnsureBucket ==
  /\ startup.pc = "bucket"
  /\ startup' = [startup EXCEPT !.pc = "select"]
  /\ UNCHANGED <<stores, hooks, wallet, logs, usage, registry, req>>

\* the query for the connected rows; on an error or no row the function
\* returns, else the async callback of every row starts and awaits restoreSession
SelectActive ==
  /\ startup.pc = "select"
  /\ \E error \in BOOLEAN :
       IF error \/ ConnectedRows = {}
       THEN startup' = [startup EXCEPT !.pc = "returned"]
       ELSE startup' = [pc |-> "settle",
                        download |-> [s \in Sessions |->
                           IF s \in ConnectedRows THEN "pending" ELSE "none"]]
  /\ UNCHANGED <<stores, hooks, wallet, logs, usage, registry, req>>

\* restoreSession(s) settles (files restored, none found, or an error); the
\* callback then calls restoreClient without awaiting it and ends
Download(s) ==
  /\ startup.download[s] = "pending"
  /\ FreeSlots # {}
  /\ startup' = [startup EXCEPT !.download[s] = "done"]
  /\ workers' = [workers EXCEPT ![NewWorker] = NewClient(s, "restore", 0)]
  /\ UNCHANGED <<stores, hooks, wallet, logs, usage, session_rows, clients, req>>

\* Promise.allSettled(restorePromises): every callback has ended
AllSettled == \A s \in Sessions : startup.download[s] # "pending"

\* await Promise.allSettled(restorePromises); restoreActiveSessions returns
ReconcilerReturns ==
  /\ startup.pc = "settle"
  /\ AllSettled
  /\ startup' = [startup EXCEPT !.pc = "returned"]
  /\ UNCHANGED <<stores, hooks, wallet, logs, usage, registry, req>>

\* startServer after await restoreActiveSessions(): app.listen
Listen ==
  /\ startup.pc = "returned"
  /\ startup' = [startup EXCEPT !.pc = "listening"]
  /\ UNCHANGED <<stores, hooks, wallet, logs, usage, registry, req>>

NextStartup ==
  \/ EnsureBucket
  \/ SelectActive
  \/ \E s \in Sessions : Download(s)
  \/ ReconcilerReturns
  \/ Listen
  \/ \E w \in Workers :
       \/ InitializeDone(w)
       \/ InitializeFail(w)

SpecStartup == InitStartup /\ [][NextStartup]_vars

\* The same start with the worker emitting ready more than once, without the
\* clock and the loss of workers.
NextReady ==
  \/ \E r \in Req :
       \/ StartSession(r)
       \/ ConnectSub(r)
       \/ ConnectExisting(r)
       \/ ConnectInit(r)
       \/ GateSession(r)
       \/ RestoreOnDemand(r)
       \/ CheckSubscription(r)
       \/ CheckRate(r)
       \/ ReadBalance(r)
  \/ \E w \in Workers :
       \/ InitializeDone(w)
       \/ InitializeFail(w)
       \/ ReadyEvent(w)
       \/ ReadyAgain(w)
       \/ ReadyRow(w)
       \/ ReadyCount(w)
       \/ ReadyUsage(w)
       \/ ReadyOthers(w)
       \/ RestoreTimeout(w)

SpecReady == InitSession /\ [][NextReady]_vars

\* ------------------------------------------------------------ worker events

\* Each session has a worker whose initialize() is under way: one made by
\* initializeClient for a row that is connecting, or one made by restoreClient
\* for a row that is connected.
InitEvents ==
  /\ wallet_balance = SessionBalance
  /\ start_balance = wallet_balance
  /\ wallet_transactions = {}
  /\ automation_logs = {}
  /\ logs_last_minute = 0
  /\ messages_used = 0
  /\ numbers_used = 0
  /\ stale = {}
  /\ clients = [s \in Sessions |-> None]
  /\ req = [r \in Req |-> IdleReq]
  /\ NoWebhooks
  /\ startup = Listening
  /\ NoKeys
  /\ \E path \in [Sessions -> Paths] :
       /\ whatsapp_sessions = [s \in Sessions |->
            IF path[s] = "init" THEN "connecting" ELSE "connected"]
       /\ workers = [w \in Workers |->
            CASE w = "w1" -> NewClient("s1", path["s1"], 0)
              [] w = "w2" -> NewClient("s2", path["s2"], 0)
              [] OTHER -> NoWorker]

\* the worker emits qr: restoreClient's handler sets the row to qr_pending with
\* the code, initializeClient's handler writes qr_code only
QrEvent(w) ==
  LET k == workers[w] IN
  /\ k.stage \in {"launching", "up"}
  /\ ~k.info
  /\ ~k.closed
  /\ k.auths = 0
  /\ k.qrs < MaxQr
  /\ workers' = [workers EXCEPT ![w].qrs = k.qrs + 1]
  /\ IF k.kind = "restore" THEN UpdateRows({k.session}, "qr_pending")
     ELSE UNCHANGED session_rows
  /\ UNCHANGED <<stores, startup, hooks, wallet, logs, usage, clients, req>>

\* the worker emits authenticated: both handlers start a backup and write no row
AuthenticatedEvent(w) ==
  LET k == workers[w] IN
  /\ k.stage \in {"launching", "up"}
  /\ ~k.info
  /\ ~k.closed
  /\ k.auths = 0
  /\ workers' = [workers EXCEPT ![w].auths = 1]
  /\ UNCHANGED <<stores, startup, hooks, wallet, logs, usage, session_rows, clients, req>>

\* the supervisor of worker w has handled auth_failure or disconnected
Terminal(w) == workers[w].stage = "failed" \/ workers[w].closed

\* the worker emits ready after its supervisor handled auth_failure or
\* disconnected: restoreClient's handler returns at once when isResolved is
\* set, initializeClient's handler has no guard and runs from the top
LateReady(w) ==
  LET k == workers[w] IN
  /\ k.session # None
  /\ Terminal(w)
  /\ k.hpc \in {"none", "skipped", "done"}
  /\ k.readies < MaxReady
  /\ IF k.kind = "restore" /\ k.resolved
     THEN /\ workers' = [workers EXCEPT ![w].info = TRUE, ![w].hpc = "skipped",
                                        ![w].readies = k.readies + 1]
          /\ UNCHANGED clients
     ELSE /\ workers' = [workers EXCEPT ![w].info = TRUE, ![w].hpc = "r_row",
                                        ![w].resolved = (k.kind = "restore"),
                                        ![w].readies = k.readies + 1]
          /\ clients' = IF k.kind = "restore" THEN [clients EXCEPT ![k.session] = w]
                        ELSE clients
  /\ UNCHANGED <<stores, startup, hooks, wallet, logs, usage, session_rows, req>>

NextEvents ==
  \E w \in Workers :
    \/ InitializeDone(w)
    \/ QrEvent(w)
    \/ AuthenticatedEvent(w)
    \/ ReadyEvent(w)
    \/ LateReady(w)
    \/ ReadyRow(w)
    \/ ReadyCount(w)
    \/ ReadyUsage(w)
    \/ ReadyOthers(w)
    \/ AuthFailure(w)
    \/ RestoreTimeout(w)
    \/ Disconnected(w)

SpecEvents == InitEvents /\ [][NextEvents]_vars

\* ------------------------------------------------------------------ ledger

RECURSIVE SumAmounts(_)
SumAmounts(rows) ==
  IF rows = {} THEN 0
  ELSE LET t == CHOOSE x \in rows : TRUE
       IN t.amount + SumAmounts(rows \ {t})

TxnsOf(r, type) == {t \in wallet_transactions : t.req = r /\ t.type = type}
Credits == {t \in wallet_transactions : t.type = "credit"}
Debits == {t \in wallet_transactions : t.type = "debit"}
LogsOf(r) == {l \in automation_logs : l.req = r}
IsRefund(t) == t.type = "credit" /\ Head(t.ref) = "refund"

\* no handler is between two of its steps
Quiescent == \A r \in Req : req[r].pc \in {"idle", "done"}
\* request r is the only one that has arrived
Alone(r) == \A o \in Req : o # r => req[o].pc = "idle"
Done(r) == req[r].pc = "done"

\* ------------------------------------------------------------------ wallet

\* C1: whenever no handler is in the middle of its steps, the stored balance
\* equals the initial balance plus the credit amounts minus the debit amounts.
C1_WalletConservation ==
  Quiescent =>
    wallet_balance = start_balance + SumAmounts(Credits) - SumAmounts(Debits)

\* a request whose handler finished with 200, without a failure and without a refund
Succeeded(r) ==
  /\ Done(r)
  /\ req[r].code = 200
  /\ req[r].fail = None
  /\ req[r].refund = 0

\* C2: concurrent sends are serializable: when every request succeeded and each
\* read a balance that covered its debit, the final balance is the starting
\* balance minus the sum of the debits.
C2_DebitsSerializable ==
  (/\ \A r \in Req : Succeeded(r) /\ req[r].debit > 0 /\ req[r].bal >= req[r].debit
   /\ Credits = {})
    => wallet_balance = start_balance - SumAmounts(Debits)

\* C3: the balance is never negative, and a debit is only taken from a stored
\* balance that covers it.
C3_NeverNegative ==
  /\ wallet_balance >= 0
  /\ \A r \in Req : req[r].debit > 0 => req[r].bal >= req[r].debit

\* a single-message send that was debited and ended in a failure
FailedAfterDebit(r) ==
  /\ Done(r)
  /\ req[r].ep \in SingleEndpoints
  /\ req[r].debit > 0
  /\ req[r].fail # None

\* C4: every debited single-message send that failed has a credit of the
\* debit's amount whose reference starts with refund_.
C4_RefundCompleteness ==
  \A r \in Req :
    FailedAfterDebit(r) =>
      \E t \in TxnsOf(r, "credit") : t.amount = req[r].debit /\ IsRefund(t)

\* the response codes of the admission gates
GateCodes == {400, 402, 403, 404, 429, 503}

\* an admission gate turned request r away: the session, recipient format,
\* subscription, rate or balance gate
Rejected(r) ==
  /\ Done(r)
  /\ req[r].code \in GateCodes
  /\ req[r].fail \in {None, "bad"}

\* C5: a request rejected by an admission gate leaves no wallet transaction and
\* no usage count, and when it ran alone the balance is the starting balance.
C5_RejectionFrame ==
  \A r \in Req :
    Rejected(r) =>
      /\ TxnsOf(r, "debit") = {}
      /\ TxnsOf(r, "credit") = {}
      /\ req[r].counted = 0
      /\ Alone(r) => wallet_balance = start_balance

\* C6: a finished bulk send to n recipients of which k were delivered is charged
\* cost * k net, with a single credit of cost * (n - k) when k < n.
C6_BulkNetCharge ==
  \A r \in Req :
    (Done(r) /\ req[r].ep \in BulkEndpoints /\ req[r].debit > 0) =>
      LET n == Len(req[r].rcps)
          k == req[r].sent
      IN /\ SumAmounts(TxnsOf(r, "debit")) - SumAmounts(TxnsOf(r, "credit"))
              = MESSAGE_COST_IQD * k
         /\ k < n =>
              /\ Cardinality(TxnsOf(r, "credit")) = 1
              /\ \A t \in TxnsOf(r, "credit") : t.amount = MESSAGE_COST_IQD * (n - k)

\* C7: a request whose send raised Session closed ends with 400, the session's
\* client out of the registry, the row disconnected and the debit refunded.
C7_SessionClosed ==
  \A r \in Req :
    (Done(r) /\ Alone(r) /\ req[r].fail = "closed") =>
      /\ req[r].code = 400
      /\ clients[req[r].sid] = None
      /\ whatsapp_sessions[req[r].sid] = "disconnected"
      /\ req[r].debit > 0 =>
           SumAmounts(TxnsOf(r, "credit")) = SumAmounts(TxnsOf(r, "debit"))

\* C10: a single-message send that passed the gates and whose message the worker
\* accepted returns 200 with one debit of the message cost, no credit, one log
\* row with status sent and one counted message; alone, the balance is 10 lower.
C10_HappySingleSend ==
  \A r \in Req :
    (Done(r) /\ req[r].ep \in SingleEndpoints /\ req[r].sent = 1) =>
      /\ req[r].code = 200
      /\ Cardinality(TxnsOf(r, "debit")) = 1
      /\ \A t \in TxnsOf(r, "debit") : t.amount = MESSAGE_COST_IQD
      /\ TxnsOf(r, "credit") = {}
      /\ Cardinality(LogsOf(r)) = 1
      /\ \A l \in LogsOf(r) : l.status = "sent"
      /\ req[r].counted = 1
      /\ Alone(r) => wallet_balance = start_balance - MESSAGE_COST_IQD

\* --------------------------------------------------------------- sessions

\* a ready handler ran to its end for worker w
ReadyCompleted(w) == workers[w].hpc = "done" /\ workers[w].stage = "up"

\* no worker was disconnected, failed to authenticate or failed to start
NoWorkerLost ==
  \A w \in Workers : ~workers[w].closed /\ workers[w].stage # "failed"

\* C8: when a ready handler has completed, the user has exactly one connected
\* row (counted at the moment the handler finished, no worker having been lost).
C8_OneConnectedRow ==
  NoWorkerLost => \A w \in Workers : ReadyCompleted(w) => workers[w].rows = 1

\* a worker whose browser runs
Live(w) == workers[w].stage \in {"launching", "up"} /\ ~workers[w].closed
LiveWorkers(s) == {w \in Workers : workers[w].session = s /\ Live(w)}

\* every initialize() has settled and no handler is between two of its steps
Settled ==
  /\ Quiescent
  /\ \A w \in Workers :
       /\ workers[w].stage # "launching"
       /\ workers[w].hpc \in {"none", "skipped", "done"}

\* C9: once the requests and the workers' handlers have finished, a session id
\* has at most one live worker.
C9_OneLiveWorker ==
  Settled => \A s \in Sessions : Cardinality(LiveWorkers(s)) <= 1

\* ------------------------------------------------------ insufficient balance

\* request r read the stored balance: it was turned away there (402) or went on
\* with a balance of at least one message
ReachedBalance(r) == req[r].code = 402 \/ req[r].cur > 0

\* C11: a single-message send that finds a stored balance below the cost of one
\* message returns 402 and leaves no log row, no wallet transaction and no
\* counted message; alone, the balance is what it was.
C11_InsufficientBalance ==
  \A r \in Req :
    (/\ Done(r)
     /\ req[r].ep \in SingleEndpoints
     /\ ReachedBalance(r)
     /\ req[r].bal < MESSAGE_COST_IQD) =>
      /\ req[r].code = 402
      /\ LogsOf(r) = {}
      /\ TxnsOf(r, "debit") = {}
      /\ TxnsOf(r, "credit") = {}
      /\ req[r].counted = 0
      /\ Alone(r) => wallet_balance = start_balance

\* a single send was turned away with 402 at a balance of 5
C11_Witness ==
  \E r \in Req :
    /\ Done(r)
    /\ req[r].ep \in SingleEndpoints
    /\ req[r].bal = 5
    /\ req[r].code = 402

\* -------------------------------------------------- gates before the dispatch

\* request r has debited the wallet, or stands at or behind a sendMessage call
DebitedOrDispatching(r) ==
  \/ req[r].debit > 0
  \/ req[r].sent > 0
  \/ req[r].pc \in {"send", "b_send"}

\* C12: every outbound send endpoint has run the subscription check and the
\* rate-limit check, and both allowed the request, before it debits the wallet
\* or hands a message to the worker.
C12_GatesBeforeDispatch ==
  \A r \in Req : DebitedOrDispatching(r) => req[r].sub

\* a gated endpoint debited after both checks allowed it
C12_Witness ==
  \E r \in Req :
    /\ req[r].ep \in {"send-otp", "v1-send", "send-announcement", "v1-send-bulk"}
    /\ req[r].sub
    /\ req[r].debit > 0
    /\ req[r].sent > 0

\* ------------------------------------------------------ readiness at dispatch

\* the step in which request r calls client.sendMessage: the call follows the
\* last await before it (getNumberId, or the loop's readiness check) at once
Dispatches(r) ==
  /\ req[r].pc \notin {"send", "b_send"}
  /\ req'[r].pc \in {"send", "b_send"}

\* C13: whenever a handler hands a message to the worker's sendMessage, the
\* worker is ready at that moment: it exists, has an identity, and its page is
\* not closed.
C13_ReadyAtDispatch ==
  [][\A r \in Req : Dispatches(r) => isClientReady(req[r].client)]_vars

\* a message was handed to a ready worker and went out
C13_Witness ==
  \E r \in Req :
    /\ req[r].sent > 0
    /\ isClientReady(req[r].client)

\* ------------------------------------------------------- per-minute rate limit

RECURSIVE SumSent(_)
SumSent(R) ==
  IF R = {} THEN 0
  ELSE LET r == CHOOSE x \in R : TRUE IN req[r].sent + SumSent(R \ {r})

\* messages the user sent within the last minute: the earlier single sends (one
\* automation_logs row each) and what the requests of this run handed out
MessagesSent == logs_last_minute + SumSent(Req)

\* request r is a single send at its rate-limit check, every other request over
NextSingleSend(r) ==
  /\ req[r].ep \in SingleEndpoints
  /\ req[r].pc = "rate"
  /\ \A o \in Req \ {r} : req[o].pc \in {"idle", "done"}

\* C14: when the user has sent exactly rate_limit_per_minute messages within the
\* last minute, by whatever endpoints, the rate-limit check of the next single
\* send rejects with reason rate_limit_minute and current = the limit.
C14_MinuteLimit ==
  \A r \in Req :
    (NextSingleSend(r) /\ MessagesSent = rate_limit_per_minute) =>
      /\ checkRateLimit(1) = "rate_limit_minute"
      /\ LogCount = rate_limit_per_minute

\* the limit was reached by single sends and the next one is about to be rejected
C14_Witness ==
  \E r \in Req :
    /\ NextSingleSend(r)
    /\ MessagesSent = rate_limit_per_minute
    /\ checkRateLimit(1) = "rate_limit_minute"

\* ------------------------------------------------------- repeated ready event

\* C15: however often the ready event is delivered for a session's worker, its
\* handlers add at most 1 to the user's numbers_used in total.
C15_ReadyIdempotent ==
  \A w \in Workers : workers[w].incs <= 1

\* ready was delivered twice to a restored worker that counted its number once
C15_Witness ==
  \E w \in Workers :
    /\ workers[w].readies = 2
    /\ workers[w].kind = "restore"
    /\ workers[w].incs = 1
    /\ workers[w].hpc = "skipped"

\* ------------------------------------------------------------ webhook engine

\* webhook h was sent a POST for the event
Received(h) == calls[h].posts > 0

\* C16: every webhook that is sent the event belongs to the event's user and
\* session, is active, and has the event's type or all; an inactive webhook and
\* a webhook of another user, session or type is sent nothing.
C16_WebhookTargeting ==
  \A h \in HookIds :
    Received(h) =>
      /\ webhooks[h].user = event.user
      /\ webhooks[h].session = event.session
      /\ webhooks[h].is_active
      /\ webhooks[h].type \in {event.type, "all"}

\* the event went to an all-webhook while an inactive webhook of the same user,
\* session and of the event's type got nothing
C16_Witness ==
  \E g, h \in HookIds :
    /\ Received(g)
    /\ webhooks[g].type = "all"
    /\ calls[g].pc = "done"
    /\ webhooks[h].user = event.user
    /\ webhooks[h].session = event.session
    /\ webhooks[h].type = event.type
    /\ ~webhooks[h].is_active
    /\ ~Received(h)

\* the attempts a row allows: max_retries, or 3 when the column is NULL
MaxAttempts(h) ==
  IF webhooks[h].max_retries = <<>> THEN DefaultMaxRetries
  ELSE webhooks[h].max_retries[1]

\* no POST of call h followed one that was answered with a status in [200, 300)
StopsAtSuccess(h) ==
  \A k \in 1..(Len(calls[h].results) - 1) : calls[h].results[k] # "ok"

\* C17: for one webhook and one event callWebhook makes at most max_retries
\* POSTs (3 when max_retries is unset), none after the first 2xx response, and
\* its loop variable never passes maxRetries.
C17_BoundedAttempts ==
  \A h \in HookIds :
    /\ calls[h].posts <= MaxAttempts(h)
    /\ StopsAtSuccess(h)
    /\ calls[h].attempt <= calls[h].maxRetries

\* a webhook with max_retries = 2 failed twice and stopped
C17_Witness ==
  \E h \in HookIds :
    /\ webhooks[h].max_retries = <<2>>
    /\ calls[h].results = <<"fail", "fail">>
    /\ calls[h].pc = "done"

\* C18: for a webhook with retry_on_failure = false a failed first attempt is
\* final: one POST is made for the event and none follows.
C18_NoRetryWhenDisabled ==
  \A h \in HookIds :
    (/\ ~webhooks[h].retry_on_failure
     /\ calls[h].results # <<>>
     /\ calls[h].results[1] = "fail") =>
      calls[h].posts = 1

\* a webhook with retry_on_failure = false failed its first attempt
C18_Witness ==
  \E h \in HookIds :
    /\ ~webhooks[h].retry_on_failure
    /\ calls[h].results = <<"fail">>
    /\ calls[h].pc \in {"stats", "next", "done"}

\* ------------------------------------------------------- failed restoration

\* restore worker w did not reach ready: its 120 s deadline passed, or
\* initialize() or the authentication failed
NotRestored(w) ==
  /\ workers[w].kind = "restore"
  /\ ~workers[w].info
  /\ \/ workers[w].stage = "failed"
     \/ workers[w].stage = "up" /\ workers[w].resolved

\* C19: once a restoration has ended without ready (deadline or failure), and
\* nothing else was started for the session, the session's row is disconnected
\* and the clients Map holds no entry for it.
C19_FailedRestoreCleanup ==
  \A w \in Workers :
    (/\ NotRestored(w)
     /\ \A o \in Workers \ {w} : workers[o].session # workers[w].session) =>
      /\ whatsapp_sessions[workers[w].session] = "disconnected"
      /\ clients[workers[w].session] = None

\* a restoration ran into its deadline
C19_Witness ==
  \E w \in Workers :
    /\ NotRestored(w)
    /\ workers[w].stage = "up"

\* ------------------------------------------------------------------ startup

\* C20: the startup reconciler does not wait for a session's download or for a
\* worker's initialization: once it has started the restorations it can return
\* at any moment, and the server can then listen.
C20_StartupDoesNotWait ==
  /\ startup.pc = "settle" => ENABLED ReconcilerReturns
  /\ startup.pc = "returned" => ENABLED Listen

\* the server listens while a restored worker is still initializing
C20_Witness ==
  /\ startup.pc = "listening"
  /\ \E w \in Workers : workers[w].kind = "restore" /\ workers[w].stage = "launching"

\* ----------------------------------------------------------------- API keys

\* no run of a ready handler is under way
HandlersQuiet ==
  \A s \in Sessions, i \in Runs : ready_handlers[s].pc[i] \in {"idle", "done"}

\* C21: when the ready handlers have run, however often and however interleaved,
\* every session whose row is connected has exactly one active API key.
C21_OneActiveKey ==
  HandlersQuiet =>
    \A s \in Sessions :
      whatsapp_sessions[s] = "connected" => Cardinality(KeysOf(s)) = 1

\* a new connect was made ready twice, one run after the other, and has one key
C21_Witness ==
  /\ HandlersQuiet
  /\ \E s \in Sessions :
       /\ ready_handlers[s].path = "init"
       /\ \A i \in Runs : ready_handlers[s].pc[i] = "done"
       /\ whatsapp_sessions[s] = "connected"
       /\ Cardinality(KeysOf(s)) = 1

\* ----------------------------------------------------------- session storage

\* the objects of session s in the bucket
ObjectsOf(s) == {x \in object_store : x.path[1] = s}

\* C22: after a disconnect request has answered success, and its storage
\* deletion has run to its end, the session's row is gone, the clients Map has
\* no entry for it, and the bucket holds no object of the session.
C22_DisconnectRemovesAll ==
  (storage_pc.op = "d_done" /\ storage_pc.del = "done") =>
    /\ whatsapp_sessions["s1"] = None
    /\ clients["s1"] = None
    /\ ObjectsOf("s1") = {}

\* a session whose auth directory held files directly in it was disconnected
C22_Witness ==
  /\ storage_pc.op = "d_done"
  /\ storage_pc.del = "done"
  /\ storage_pc.paths # {}
  /\ ObjectsOf("s1") = {}

\* C25: backing up the auth directory and restoring it into an empty directory
\* gives the same set of relative paths with the same bytes, nested files
\* included.
C25_BackupRestoreRoundTrip ==
  storage_pc.op = "restored" => restored_files = auth_files

\* a tree of two top-level files came back as it was
C25_Witness ==
  /\ storage_pc.op = "restored"
  /\ Cardinality(auth_files) = 2
  /\ restored_files = auth_files

\* ------------------------------------------------------ recipient validation

\* the recipient of the sendMessage call request r is at
CurrentRecipient(q) == IF q.ep \in BulkEndpoints THEN q.rcps[q.i] ELSE q.rcps[1]

\* C23: on every send endpoint, no message is handed to the worker for a
\* recipient whose normalized form is not 9 to 15 digits.
C23_BadRecipientNotSent ==
  \A r \in Req :
    req[r].pc \in {"send", "b_send"} =>
      ValidNumber(formattedNumber(CurrentRecipient(req[r])))

\* a badly formed recipient was turned away by an endpoint that validates
C23_Witness ==
  \E r \in Req :
    /\ req[r].fail = "bad"
    /\ ~ValidNumber(formattedNumber(req[r].rcps[1]))

\* ------------------------------------------------------------ subscriptions

\* the subscriptions of the user in status active
ActiveSubscriptions ==
  {x \in user_subscriptions : x.user_id = User /\ x.status = "active"}

\* C24: after any sequence of subscription purchases by a user, that user has
\* at most one subscription in status active.
C24_OneActiveSubscription == Cardinality(ActiveSubscriptions) <= 1

\* one purchase went through and the user has one active subscription
C24_Witness ==
  /\ \E p \in Purchases : purchases[p].code = 200
  /\ Cardinality(ActiveSubscriptions) = 1

\* ------------------------------------------------------------ worker events

\* the status of the row of worker w's session
RowOf(w) == whatsapp_sessions[workers[w].session]

\* C26: failed and disconnected are terminal for a supervisor: once it has
\* handled auth_failure or disconnected, no later step sets its session's row
\* back to connected or puts its worker back into the clients Map.
C26_TerminalStates ==
  [][\A w \in Workers :
       (workers[w].session # None /\ Terminal(w)) =>
         /\ (RowOf(w) # "connected" => whatsapp_sessions'[workers[w].session] # "connected")
         /\ (clients[workers[w].session] # w => clients'[workers[w].session] # w)]_vars

\* restoreClient's supervisor handled auth_failure and then a late ready, and
\* the row stayed failed and the clients Map stayed without the worker
C26_Witness ==
  \E w \in Workers :
    /\ workers[w].kind = "restore"
    /\ workers[w].stage = "failed"
    /\ workers[w].readies > 0
    /\ RowOf(w) = "failed"
    /\ clients[workers[w].session] = None

\* C27: each worker event is written to the session row as its transition: qr
\* sets qr_pending, authenticated sets connecting, ready sets connected,
\* auth_failure sets failed, disconnected sets disconnected, on the new-connect
\* and on the restoration path.
C27_EventTransitions ==
  [][\A w \in Workers :
       LET s == workers[w].session IN
       /\ QrEvent(w) => whatsapp_sessions'[s] = "qr_pending"
       /\ AuthenticatedEvent(w) => whatsapp_sessions'[s] = "connecting"
       /\ ReadyRow(w) => whatsapp_sessions'[s] = "connected"
       /\ AuthFailure(w) => whatsapp_sessions'[s] = "failed"
       /\ Disconnected(w) => whatsapp_sessions'[s] = "disconnected"]_vars

\* a restored worker went through qr and ready and its row is connected
C27_Witness ==
  \E w \in Workers :
    /\ workers[w].kind = "restore"
    /\ workers[w].qrs > 0
    /\ workers[w].hpc = "done"
    /\ RowOf(w) = "connected"

\* --------------------------------------------------------- stopping a bulk send

\* C28: in a bulk send, once the client is found not ready or the worker raises
\* "Session closed" at recipient i, no recipient after i is handed to the worker.
C28_BulkStops ==
  \A r \in Req :
    (req[r].ep \in BulkEndpoints /\ req[r].stop > 0 /\ req[r].i > req[r].stop) =>
      req[r].pc \notin {"b_resolve", "b_send"}

\* an announcement stopped at its first recipient of two
C28_Witness ==
  \E r \in Req :
    /\ req[r].ep = "send-announcement"
    /\ Len(req[r].rcps) = 2
    /\ req[r].stop = 1
    /\ req[r].i = 1
    /\ req[r].pc = "done"

\* ------------------------------------------------- failed on-demand creation

\* request r found the row connected and no client, and restoreClient threw:
\* the handler answered 503
RestoreThrew(r) ==
  /\ req[r].ep \in SingleEndpoints \cup BulkEndpoints
  /\ req[r].pc = "done"
  /\ req[r].code = 503
  /\ req[r].client # None
  /\ workers[req[r].client].kind = "restore"
  /\ workers[req[r].client].owner = r
  /\ workers[req[r].client].stage = "failed"

\* C29: if a send request finds the row connected with no client in the Map and
\* the on-demand restoreClient throws, the row is marked disconnected (as long
\* as nothing else was started for the session).
C29_FailedOnDemandRestore ==
  \A r \in Req :
    (/\ RestoreThrew(r)
     /\ \A o \in Workers \ {req[r].client} : workers[o].session # req[r].sid) =>
      whatsapp_sessions[req[r].sid] = "disconnected"

\* an on-demand restoration threw and the request was answered 503
C29_Witness == \E r \in Req : RestoreThrew(r)

\* ------------------------------------------------- rate limit under concurrency

\* C30: when several sends of the user run concurrently, the messages sent
\* within a window exceed the window's limit by at most one.
C30_AtMostOneBeyond == MessagesSent <= rate_limit_per_minute + 1

\* two sends ran side by side and one message went out beyond the limit
C30_Witness ==
  /\ \A r \in Req : req[r].sent > 0
  /\ MessagesSent = rate_limit_per_minute + 1

\* ------------------------------------------------------------ automation log

\* request r called client.sendMessage at least once
Dispatched(r) == req[r].sent > 0 \/ req[r].fail \in {"error", "closed"}

\* C31: every send request that reached dispatch has, once it is over, exactly
\* one automation_logs row, whose status is sent when a message went out and
\* failed otherwise; a bulk request has one row for the whole request.
C31_OneLogRow ==
  \A r \in Req :
    (Done(r) /\ Dispatched(r)) =>
      /\ Cardinality(LogsOf(r)) = 1
      /\ \A l \in LogsOf(r) : l.status = IF req[r].sent > 0 THEN "sent" ELSE "failed"

\* a dispatched OTP is over and has its one row with status sent
C31_Witness ==
  \E r \in Req :
    /\ Done(r)
    /\ req[r].ep = "send-otp"
    /\ req[r].sent = 1
    /\ LogsOf(r) = {[req |-> r, type |-> "otp", status |-> "sent"]}

\* ------------------------------------------------------------ webhook stats

\* callWebhook has returned or thrown for webhook h
CallOver(h) == calls[h].pc = "done"

\* one of the attempts got a response with a status in [200, 300)
AnyOk(h) == \E k \in 1..Len(calls[h].results) : calls[h].results[k] = "ok"

\* C32: for each webhook an event is delivered to, update_webhook_stats is
\* invoked exactly once, after the final attempt, with p_success = true if and
\* only if one of the attempts got a status in [200, 300).
C32_StatsOnce ==
  \A h \in HookIds :
    /\ CallOver(h) =>
         /\ webhooks[h].total_calls = 1
         /\ webhooks[h].success_calls = IF AnyOk(h) THEN 1 ELSE 0
         /\ webhooks[h].failed_calls = IF AnyOk(h) THEN 0 ELSE 1
    /\ ~CallOver(h) => webhooks[h].total_calls = 0

\* a delivery succeeded at its second attempt and was counted once, as a success
C32_Witness ==
  \E h \in HookIds :
    /\ CallOver(h)
    /\ calls[h].results = <<"fail", "ok">>
    /\ webhooks[h].total_calls = 1
    /\ webhooks[h].success_calls = 1

\* ------------------------------------------------------------- event fan-out

Producers == 1..MaxProducers

\* message.from and message.type of an inbound message
Senders == {"status@broadcast", "9647@c.us"}
MessageTypes == {"chat", "location", "image", "sticker", "voice"}

\* from.replace('@c.us', '')
StripCus(from) == IF from = "9647@c.us" THEN "9647" ELSE from

\* A payload is a JSON object, held as the set of its leaves: the path of keys
\* that leads to the leaf, and the value there.
Leaf(path, value) == [path |-> path, value |-> value]

\* obj.key is truthy
Truthy(obj, key) ==
  \E e \in obj : e.path = <<key>> /\ e.value \notin {"false", "null", "0", ""}

\* { ...obj, key: value }
SetKey(obj, key, value) ==
  {e \in obj : e.path[1] # key} \cup {Leaf(<<key>>, value)}

\* { ...payload, ...custom }: an own key of custom replaces the whole value
\* that payload has under that key
MergePayload(payload, custom) ==
  {e \in payload : ~ \E c \in custom : c.path[1] = e.path[1]} \cup custom

\* the payload the message handler builds before it looks at the type
BasePayload(from, type, hasMedia) ==
  {Leaf(<<"success">>, "true"), Leaf(<<"event">>, "message_received"),
   Leaf(<<"from">>, StripCus(from)), Leaf(<<"messageType">>, type),
   Leaf(<<"hasMedia">>, IF hasMedia THEN "true" ELSE "false")}

\* messageType as the handler's if-chain sets it
MessageTypeOf(type) ==
  CASE type = "location" -> "location"
    [] type \in {"image", "video", "audio", "document"} -> "media"
    [] type = "sticker" -> "sticker"
    [] type = "voice" -> "voice"
    [] OTHER -> "text"

\* the payload after the if-chain; downloaded: downloadMedia() did not throw
MessagePayload(from, type, hasMedia, downloaded) ==
  BasePayload(from, type, hasMedia) \cup
    CASE type = "location" ->
           {Leaf(<<"location", "latitude">>, "33.3"), Leaf(<<"location", "longitude">>, "44.4"),
            Leaf(<<"location", "name">>, "null"), Leaf(<<"location", "address">>, "null")}
      [] type \in {"image", "video", "audio", "document"} ->
           {Leaf(<<"mediaType">>, type)} \cup
             (IF hasMedia /\ downloaded
              THEN {Leaf(<<"media", "mimetype">>, "image/jpeg"), Leaf(<<"media", "data">>, "abc...")}
              ELSE {})
      [] type \in {"sticker", "voice"} -> {}
      [] OTHER -> {Leaf(<<"text">>, "hello")}

\* the payloads of send-otp's two triggerWebhooks calls
OtpPayload(ok) ==
  IF ok
  THEN {Leaf(<<"success">>, "true"), Leaf(<<"event">>, "otp_sent"),
        Leaf(<<"recipient">>, "9647"), Leaf(<<"message">>, "OTP sent successfully")}
  ELSE {Leaf(<<"success">>, "false"), Leaf(<<"event">>, "otp_failed"),
        Leaf(<<"recipient">>, "9647"), Leaf(<<"error">>, "Failed to send OTP")}

\* custom_payload of a webhook row: empty, a new key, an engine key, and a key
\* inside the engine's location object
CustomPayloads ==
  {{}, {Leaf(<<"tenant">>, "acme")}, {Leaf(<<"event">>, "custom")},
   {Leaf(<<"location", "name">>, "HQ")}}

\* the webhook rows of the fan-out: webhook_url is NOT NULL, the two override
\* URLs are NULL (None) or set
FanoutTypes == {"all", "incoming_message", "otp"}
FanoutRows ==
  [user : {User}, session : {"s1"}, type : FanoutTypes \cup {"incoming_text"},
   is_active : {TRUE}, webhook_url : {"primary"},
   success_webhook_url : {None, "on-success"}, failure_webhook_url : {None, "on-failure"},
   custom_payload : CustomPayloads]

\* the target is the primary URL whatever the flag
TargetUrlPrimary(webhook, payload) == webhook.webhook_url

\* the URL triggerWebhooks posts to
TargetUrl(webhook, payload) ==
  IF Truthy(payload, "success") /\ webhook.success_webhook_url # None
  THEN webhook.success_webhook_url
  ELSE IF ~ Truthy(payload, "success") /\ webhook.failure_webhook_url # None
       THEN webhook.failure_webhook_url
       ELSE webhook.webhook_url

\* the callWebhook invocations one triggerWebhooks call starts, each left to run
\* on its own
Triggered(p, eventType, payload) ==
  {[producer |-> p, event |-> eventType, hook |-> h,
    url |-> TargetUrl(webhooks[h], payload), payload |-> payload,
    body |-> MergePayload(payload, webhooks[h].custom_payload), state |-> "pending"] :
     h \in {g \in SelectWebhooks(User, "s1", eventType) :
              TargetUrl(webhooks[g], payload) # None}}

\* triggerWebhooks awaits every callWebhook it started
AwaitedCalls(p, eventType) ==
  {d \in deliveries : d.producer = p /\ d.event = eventType}

\* the callWebhook invocations whose end triggerWebhooks waits for before it
\* returns: callWebhook(...) is called without await
Awaited(p, eventType) == {}

IdleProducer ==
  [kind |-> None, pc |-> "idle", from |-> None, messageType |-> None, payload |-> {},
   events |-> <<>>, ok |-> FALSE, triggered |-> FALSE, code |-> 0]

\* Session s1 of the user is connected; its webhooks table holds MaxHooks rows,
\* distinct in (user, session, type); the second row listens to incoming_text
\* and keeps the column defaults.
InitFanout ==
  /\ wallet_balance = DEFAULT_WALLET_BALANCE
  /\ start_balance = wallet_balance
  /\ wallet_transactions = {}
  /\ automation_logs = {}
  /\ logs_last_minute = 0
  /\ messages_used = 0
  /\ numbers_used = 1
  /\ whatsapp_sessions = [s \in Sessions |-> IF s = "s1" THEN "connected" ELSE None]
  /\ stale = {}
  /\ clients = [s \in Sessions |-> IF s = "s1" THEN "w1" ELSE None]
  /\ workers = [w \in Workers |-> IF w = "w1" THEN ReadyWorker("s1") ELSE NoWorker]
  /\ req = [r \in Req |-> IdleReq]
  /\ webhooks \in [HookIds -> FanoutRows]
  /\ webhooks[1].type \in FanoutTypes
  /\ \A h \in HookIds : h > 1 =>
       /\ webhooks[h].type = "incoming_text"
       /\ webhooks[h].success_webhook_url = None
       /\ webhooks[h].failure_webhook_url = None
       /\ webhooks[h].custom_payload = {}
  /\ event = NoEvent
  /\ calls = <<>>
  /\ webhook_logs = {}
  /\ startup = Listening
  /\ api_keys = {}
  /\ ready_handlers = <<>>
  /\ NoStorage
  /\ NoSubscriptions
  /\ producers = [p \in Producers |-> IdleProducer]
  /\ deliveries = {}

FanoutIdle ==
  UNCHANGED <<wallet, usage, logs, registry, req, hooks, startup, keys, storage, subs>>

\* client.on('message'): a status broadcast is skipped, any other message gets
\* its messageType and payload
MessageEvent(p) ==
  /\ producers[p].pc = "idle"
  /\ \E from \in Senders, type \in MessageTypes, downloaded \in BOOLEAN :
       /\ type # "image" => downloaded
       /\ producers' = [producers EXCEPT ![p] =
            IF from = "status@broadcast"
            THEN [@ EXCEPT !.kind = "message", !.from = from, !.pc = "done"]
            ELSE [@ EXCEPT !.kind = "message", !.from = from, !.pc = "typed",
                           !.messageType = MessageTypeOf(type),
                           !.payload = MessagePayload(from, type, type = "image", downloaded)]]
  /\ UNCHANGED deliveries
  /\ FanoutIdle

\* await triggerWebhooks(userId, sessionId, `incoming_${messageType}`, payload)
TriggerTyped(p) ==
  LET q == producers[p]
      eventType == "incoming_" \o q.messageType
  IN /\ q.pc = "typed"
     /\ deliveries' = deliveries \cup Triggered(p, eventType, q.payload)
     /\ producers' = [producers EXCEPT ![p].pc = "typed_await",
                                       ![p].events = Append(@, eventType)]
     /\ FanoutIdle

\* triggerWebhooks returns to the handler
TypedReturns(p) ==
  /\ producers[p].pc = "typed_await"
  /\ \A d \in Awaited(p, "incoming_" \o producers[p].messageType) : d.state # "pending"
  /\ producers' = [producers EXCEPT ![p].pc = "generic"]
  /\ UNCHANGED deliveries
  /\ FanoutIdle

\* await triggerWebhooks(userId, sessionId, 'incoming_message',
\*                       { ...payload, messageType })
TriggerGeneric(p) ==
  LET q == producers[p]
  IN /\ q.pc = "generic"
     /\ deliveries' = deliveries \cup
          Triggered(p, "incoming_message", SetKey(q.payload, "messageType", q.messageType))
     /\ producers' = [producers EXCEPT ![p].pc = "generic_await",
                                       ![p].events = Append(@, "incoming_message")]
     /\ FanoutIdle

GenericReturns(p) ==
  /\ producers[p].pc = "generic_await"
  /\ \A d \in Awaited(p, "incoming_message") : d.state # "pending"
  /\ producers' = [producers EXCEPT ![p].pc = "done"]
  /\ UNCHANGED deliveries
  /\ FanoutIdle

\* send-otp after client.sendMessage: it resolved (ok) or threw
OtpOutcome(p) ==
  /\ producers[p].pc = "idle"
  /\ \E ok \in BOOLEAN :
       producers' = [producers EXCEPT ![p] =
         [@ EXCEPT !.kind = "otp", !.pc = "otp", !.ok = ok, !.payload = OtpPayload(ok)]]
  /\ UNCHANGED deliveries
  /\ FanoutIdle

OtpOver(q) == IF q.triggered /\ q.code # 0 THEN "done" ELSE "otp"

\* res.json(...) after the send, res.status(500) after the throw
OtpRespond(p) ==
  LET q == [producers[p] EXCEPT !.code = IF producers[p].ok THEN 200 ELSE 500]
  IN /\ producers[p].pc = "otp"
     /\ producers[p].code = 0
     /\ producers' = [producers EXCEPT ![p] = [q EXCEPT !.pc = OtpOver(q)]]
     /\ UNCHANGED deliveries
     /\ FanoutIdle

\* triggerWebhooks(userId, sessionId, 'otp', {...}).catch(...): not awaited; on
\* the success path the call comes after res.json
OtpTrigger(p) ==
  LET q == [producers[p] EXCEPT !.triggered = TRUE, !.events = Append(@, "otp")]
  IN /\ producers[p].pc = "otp"
     /\ ~ producers[p].triggered
     /\ producers[p].ok => producers[p].code # 0
     /\ deliveries' = deliveries \cup Triggered(p, "otp", q.payload)
     /\ producers' = [producers EXCEPT ![p] = [q EXCEPT !.pc = OtpOver(q)]]
     /\ FanoutIdle

\* callWebhook's retry loop comes to its end: a 2xx answer, or every attempt
\* failed; an endpoint that never answers keeps the invocation pending
DeliveryOver(d, result) ==
  /\ d \in deliveries
  /\ d.state = "pending"
  /\ deliveries' = (deliveries \ {d}) \cup {[d EXCEPT !.state = result]}
  /\ UNCHANGED producers
  /\ FanoutIdle

NextFanout ==
  \/ \E p \in Producers :
       \/ MessageEvent(p)
       \/ TriggerTyped(p)
       \/ TypedReturns(p)
       \/ TriggerGeneric(p)
       \/ GenericReturns(p)
       \/ OtpOutcome(p)
       \/ OtpRespond(p)
       \/ OtpTrigger(p)
  \/ \E d \in deliveries, result \in {"ok", "failed"} : DeliveryOver(d, result)

SpecFanout == InitFanout /\ [][NextFanout]_vars

\* the inbound messages whose handler has returned
HandledMessage(p) == producers[p].kind = "message" /\ producers[p].pc = "done"

\* the callWebhook invocations a handler started
DeliveriesOf(p) == {d \in deliveries : d.producer = p}

\* C34: for every inbound message that is not from status@broadcast, exactly
\* one typed event out of incoming_text, incoming_media and incoming_location
\* is emitted first and exactly one incoming_message event after it; a message
\* from status@broadcast emits no event.
C34_TypedThenGeneric ==
  \A p \in Producers :
    HandledMessage(p) =>
      IF producers[p].from = "status@broadcast"
      THEN producers[p].events = <<>>
      ELSE /\ Len(producers[p].events) = 2
           /\ producers[p].events[1] \in
                {"incoming_text", "incoming_media", "incoming_location"}
           /\ producers[p].events[2] = "incoming_message"

\* a text message was handled: incoming_text, then incoming_message
C34_Witness ==
  \E p \in Producers :
    /\ HandledMessage(p)
    /\ producers[p].events = <<"incoming_text", "incoming_message">>

\* what the claim gives as the target of a delivery
HasFlag(payload) == \E e \in payload : e.path = <<"success">>
ClaimedUrl(webhook, payload) ==
  IF HasFlag(payload) /\ Truthy(payload, "success") /\ webhook.success_webhook_url # None
  THEN webhook.success_webhook_url
  ELSE IF HasFlag(payload) /\ ~ Truthy(payload, "success")
            /\ webhook.failure_webhook_url # None
       THEN webhook.failure_webhook_url
       ELSE webhook.webhook_url

Defines(custom, q) ==
  \E c \in custom : c.path = q \/ IsPrefix(c.path, q) \/ IsPrefix(q, c.path)

\* C36: the delivered body carries every key of the webhook's custom payload
\* with the custom value, and every engine-built key that the custom payload
\* does not define keeps its engine-built value, at every nesting depth.
C36_DeepMerge ==
  \A d \in deliveries :
    LET custom == webhooks[d.hook].custom_payload
    IN /\ custom \subseteq d.body
       /\ \A e \in d.payload : ~ Defines(custom, e.path) => e \in d.body

\* a delivery whose custom payload replaced an engine-built key
C36_Witness ==
  \E d \in deliveries :
    /\ Leaf(<<"event">>, "custom") \in d.body
    /\ Leaf(<<"from">>, "9647") \in d.body

\* a producer's part is over: the message handler returned, the send request
\* was answered
Finished(p) ==
  \/ HandledMessage(p)
  \/ producers[p].kind = "otp" /\ producers[p].code # 0

\* C33: the response to a send request and the handling of an inbound event
\* never wait for a webhook's retry loop: whatever the deliveries under way do,
\* the answer of a send is ready to go out with the code the send decided, a
\* handler waiting in triggerWebhooks is ready to go on, and an idle handler is
\* ready to take the next message.
C33_NeverWaits ==
  \A p \in Producers :
    /\ (producers[p].kind = "otp" /\ producers[p].code = 0) => ENABLED OtpRespond(p)
    /\ (producers[p].kind = "otp" /\ producers[p].code # 0) =>
         producers[p].code = IF producers[p].ok THEN 200 ELSE 500
    /\ producers[p].pc = "typed_await" => ENABLED TypedReturns(p)
    /\ producers[p].pc = "generic_await" => ENABLED GenericReturns(p)
    /\ producers[p].pc = "idle" => ENABLED MessageEvent(p)

\* a send was answered and a message handled while a delivery of each is still
\* pending and another has failed
C33_Witness ==
  \E p, q \in Producers :
    /\ HandledMessage(p)
    /\ producers[q].kind = "otp" /\ producers[q].code # 0
    /\ \E d \in DeliveriesOf(p) : d.state = "pending"
    /\ \E d \in DeliveriesOf(q) : d.state = "pending"
    /\ \E d \in deliveries : d.state = "failed"

\* ----------------------------------------------- sends next to a new session

\* the send endpoints that take the session from the request or the API key
DispatchEndpoints == {"send-otp", "send-announcement", "v1-send"}

\* Session s1 is connected and its worker w1 is ready; the user has started a
\* connect of a second session s2, whose worker w2 is launching.
InitDispatch ==
  /\ wallet_balance = 3 * MESSAGE_COST_IQD
  /\ start_balance = wallet_balance
  /\ wallet_transactions = {}
  /\ automation_logs = {}
  /\ logs_last_minute = 0
  /\ messages_used = 0
  /\ numbers_used \in {0, 1}
  /\ whatsapp_sessions = [s \in Sessions |-> IF s = "s1" THEN "connected" ELSE "connecting"]
  /\ stale = {}
  /\ clients = [s \in Sessions |-> IF s = "s1" THEN "w1" ELSE None]
  /\ workers = [w \in Workers |->
       CASE w = "w1" -> ReadyWorker("s1")
         [] w = "w2" -> NewClient("s2", "init", 0)
         [] OTHER -> NoWorker]
  /\ req = [r \in Req |-> IdleReq]
  /\ NoWebhooks
  /\ startup = Listening
  /\ NoKeys

\* a send request arrives for session s1
StartDispatch(r) ==
  /\ req[r].pc = "idle"
  /\ \A o \in Req : o < r => req[o].pc # "idle"
  /\ \E ep \in DispatchEndpoints : \E rcps \in RecipientLists(ep) :
       req' = [req EXCEPT ![r] =
                 [IdleReq EXCEPT !.ep = ep, !.sid = "s1", !.rcps = rcps, !.pc = "gate"]]
  /\ UNCHANGED <<stores, startup, hooks, wallet, logs, usage, registry>>

NextDispatch ==
  \/ \E r \in Req :
       \/ StartDispatch(r)
       \/ GateSession(r)
       \/ CheckSubscription(r)
       \/ CheckRate(r)
       \/ ReadBalance(r)
       \/ WriteBalance(r)
       \/ InsertDebit(r)
       \/ Resolve(r)
       \/ Send(r)
       \/ InsertLog(r)
       \/ IncrementUsage(r)
       \/ RefundWrite(r)
       \/ RefundTxn(r)
       \/ CloseRow(r)
       \/ BulkCheck(r)
       \/ BulkResolve(r)
       \/ BulkSend(r)
  \/ \E w \in Workers :
       \/ InitializeDone(w)
       \/ ReadyEvent(w)
       \/ ReadyRow(w)
       \/ ReadyUsage(w)
       \/ ReadyOthers(w)

SpecDispatch == InitDispatch /\ [][NextDispatch]_vars

\* C37: no message is dispatched through a session whose row status is
\* disconnected or failed: once the ready of one session has forced the
\* user's other sessions to disconnected, a send addressed to one of those
\* other sessions is rejected.
C37_NoDispatchWhenDown ==
  [][\A r \in Req :
       (Send(r) \/ BulkSend(r)) =>
         whatsapp_sessions[req[r].sid] \notin {"disconnected", "failed"}]_vars

\* the ready of s2 has set the row of s1 to disconnected, and a send to s1
\* came afterwards and has been answered
C37_Witness ==
  /\ workers["w2"].hpc = "done"
  /\ whatsapp_sessions["s1"] = "disconnected"
  /\ \E r \in Req : req[r].sid = "s1" /\ req[r].pc = "done"

\* C38: a refund raises the balance by exactly the refunded amount relative to
\* the balance stored at the moment of the refund: it never overwrites a
\* balance change that another operation of the user made between the debit
\* and the refund.
C38_RefundRelative ==
  [][\A r \in Req :
       RefundWrite(r) => wallet_balance' = wallet_balance + RefundAmount(req[r])]_vars

\* a refund was written while no other request had touched the balance since
\* the debit
C38_Witness ==
  \E r \in Req :
    /\ req[r].refund > 0
    /\ req[r].pc = "refund_txn"
    /\ wallet_balance = start_balance

\* ------------------------------------------------- disconnect and reconnect

\* The user's connect request for s1 has passed its gates: the row is
\* connecting and the worker w1 is launching; the basic subscription has
\* counted no number yet. The auth directory of s1 holds one file.
InitReconnect ==
  /\ wallet_balance = DEFAULT_WALLET_BALANCE
  /\ start_balance = wallet_balance
  /\ wallet_transactions = {}
  /\ automation_logs = {}
  /\ logs_last_minute = 0
  /\ messages_used = 0
  /\ numbers_used = 0
  /\ whatsapp_sessions = [s \in Sessions |-> IF s = "s1" THEN "connecting" ELSE None]
  /\ stale = {}
  /\ clients = [s \in Sessions |-> None]
  /\ workers = [w \in Workers |-> IF w = "w1" THEN NewClient("s1", "init", 0) ELSE NoWorker]
  /\ req = [r \in Req |-> IdleReq]
  /\ NoWebhooks
  /\ startup = Listening
  /\ api_keys = {}
  /\ ready_handlers = <<>>
  /\ auth_files = {[path |-> <<"session.json">>, bytes |-> "b1"]}
  /\ object_store = {}
  /\ restored_files = {}
  /\ storage_pc = [NoStorageOp EXCEPT !.op = "start"]
  /\ NoSubscriptions
  /\ NoFanout

\* POST /api/whatsapp/connect { userId, sessionId } of the user, or
\* POST /api/whatsapp/disconnect/s1 { userId } with any user id
StartReconnect(r) ==
  /\ req[r].pc = "idle"
  /\ \A o \in Req : o < r => req[o].pc # "idle"
  /\ \/ req' = [req EXCEPT ![r] = [IdleReq EXCEPT !.ep = "connect", !.sid = "s1",
                                                  !.pc = "c_sub"]]
     \/ \E u \in Users :
          req' = [req EXCEPT ![r] = [IdleReq EXCEPT !.ep = "disconnect", !.sid = "s1",
                                                    !.user = u, !.pc = "d_logout"]]
  /\ UNCHANGED <<stores, startup, hooks, wallet, logs, usage, registry>>

\* disconnect: clients.get(sessionId); if there is a client, await
\* client.logout() and clients.delete(sessionId); then deleteSession(sessionId)
\* is started and not awaited
DisconnectRequest(r) ==
  LET q == req[r]
      client == clients[q.sid]
  IN /\ q.pc = "d_logout"
     /\ workers' = [w \in Workers |->
          IF w = client THEN [workers[w] EXCEPT !.closed = TRUE] ELSE workers[w]]
     /\ clients' = [clients EXCEPT ![q.sid] = None]
     /\ storage_pc' = [storage_pc EXCEPT !.del = "list", !.user = q.user]
     /\ Goto(r, q, "d_row")
     /\ UNCHANGED <<fanout, keys, subs, auth_files, object_store, restored_files, startup,
                    hooks, wallet, logs, usage, session_rows>>

\* disconnect: delete from whatsapp_sessions where session_id = sessionId and
\* user_id = userId, then res.json({ success: true })
DisconnectDelete(r) ==
  LET q == req[r] IN
  /\ q.pc = "d_row"
  /\ IF q.user = User
     THEN /\ whatsapp_sessions' = [whatsapp_sessions EXCEPT ![q.sid] = None]
          /\ stale' = stale \ {q.sid}
     ELSE UNCHANGED session_rows
  /\ Respond(r, [q EXCEPT !.was = whatsapp_sessions[q.sid]], 200)
  /\ UNCHANGED <<stores, startup, hooks, wallet, logs, usage, clients, workers>>

NextReconnect ==
  \/ \E r \in Req :
       \/ StartReconnect(r)
       \/ ConnectSub(r)
       \/ ConnectExisting(r)
       \/ ConnectInit(r)
       \/ DisconnectRequest(r)
       \/ DisconnectDelete(r)
  \/ \E w \in Workers :
       \/ InitializeDone(w)
       \/ ReadyEvent(w)
       \/ ReadyRow(w)
       \/ ReadyUsage(w)
       \/ ReadyOthers(w)
  \/ backupSession
  \/ DeleteList
  \/ DeleteRemove

SpecReconnect == InitReconnect /\ [][NextReconnect]_vars

\* a disconnect request of the owner has been answered, and the row it deleted
\* was connected
OwnerDisconnected ==
  \E d \in Req :
    /\ req[d].ep = "disconnect" /\ req[d].user = User
    /\ req[d].pc = "done" /\ req[d].was = "connected"

\* C39: after a user whose tier allows one number has connected a session and
\* then explicitly disconnected it, a new connect request of that user passes
\* the subscription gate: numbers_used does not block a reconnect when the
\* user has no connected session.
C39_ReconnectPasses ==
  [][\A r \in Req :
       (ConnectSub(r) /\ OwnerDisconnected /\ ConnectedRows = {}) =>
         req'[r].pc = "c_existing"]_vars

\* the session became ready, the owner disconnected it, and a connect request
\* came afterwards and was answered
C39_Witness ==
  /\ OwnerDisconnected
  /\ workers["w1"].readies = 1
  /\ whatsapp_sessions["s1"] = None
  /\ \E r \in Req : req[r].ep = "connect" /\ req[r].pc = "done"

\* C40: a disconnect request that names a user id which does not own the
\* session leaves the session untouched: its worker is not logged out, its
\* registry entry is kept, and its stored auth files and its row are not
\* deleted.
C40_ForeignDisconnect ==
  [][/\ \A r \in Req :
          ((DisconnectRequest(r) \/ DisconnectDelete(r)) /\ req[r].user # User) =>
            UNCHANGED <<clients, workers, whatsapp_sessions>>
     /\ (DeleteRemove /\ storage_pc.user # User) => UNCHANGED object_store]_vars

\* a disconnect request of another user was answered while s1 was connected
\* and backed up
C40_Witness ==
  /\ \E d \in Req : req[d].ep = "disconnect" /\ req[d].user # User /\ req[d].pc = "done"
  /\ whatsapp_sessions["s1"] = "connected"
  /\ storage_pc.op = "backed"

====
